---- MODULE Spec2Model ----
(***************************************************************************)
(* Model of the request pipeline of the gin tutorial examples:             *)
(*   - the handler chain driven by Context.Next / Context.Abort            *)
(*     (gin-one/examples/3_1_middleware_principle.go), and                 *)
(*   - the token-bucket RateLimiter with its mutex-guarded Allow()         *)
(*     (the common-middleware example).                                    *)
(***************************************************************************)
EXTENDS Integers, Naturals, Sequences, FiniteSets, TLC

VARIABLES
    \* ---- handler chain (one request's gin.Context) ----
    handlers,    \* c.handlers: the stages' bodies followed by the route handler
    index,       \* c.index (int8)
    stack,       \* call stack of the goroutine serving the request
    started,     \* the engine has called c.Next() for the request
    resp,        \* the response written so far (NoResp if none)
    werr,        \* a write after the response was written has been reported
    log,         \* trace of what ran, in order
    \* ---- token bucket ----
    rate,        \* rl.rate (tokens per second)
    maxTokens,   \* rl.maxTokens, in 1/TicksPerSec tokens
    tokens,      \* rl.tokens, in 1/TicksPerSec tokens
    lastUpdate,  \* rl.lastUpdate, in clock ticks
    mu,          \* rl.mu: 0 when free, else the goroutine holding it
    clock,       \* the monotonic clock read by time.Now(), in ticks
    pc,          \* per goroutine: position inside Allow()
    nowv,        \* per goroutine: local variable now
    elapsed,     \* per goroutine: local variable elapsed (ticks)
    ret,         \* per goroutine: value Allow() is returning
    hist,        \* completed Allow() calls, in order of return
    sTokens,     \* bucket of the sequential reference execution
    sLast,       \* lastUpdate of the sequential reference execution
    \* ---- request pipeline: context data, panics, requests in sequence ----
    keys,        \* c.Keys: the values stored with c.Set
    got,         \* what the c.Get calls of the request returned, in order
    escaped,     \* a panic has left c.Next() unrecovered
    calling,     \* the rate-limit stage is inside limiter.Allow()
    nreq,        \* requests served before the current one
    \* ---- concurrent requests on one engine ----
    rq,          \* per request goroutine: position, context in use, panic
    cobj,        \* the engine's context objects
    crashed,     \* the process has died of an unrecovered panic
    served,      \* finished requests, in order of completion
    \* ---- graceful shutdown (main and the HTTP server) ----
    spc,         \* position of main
    isReady,     \* readiness flag
    sigs,        \* the signal channel quit (buffer of 1)
    inflight,    \* per request: "new", "run", "sent", "refused" or "killed"
    left,        \* per request: seconds of work left in its handler
    sclock,      \* time
    deadline,    \* deadline of the shutdown context (-1: none)
    shutErr,     \* what srv.Shutdown returned
    trace,       \* what main has done, in order
    \* ---- JWT authentication (5_1_jwt_auth.go) ----
    jbl,         \* tokenBlacklist: the tokens mapped to true
    jw,          \* goroutines in the middle of a write to tokenBlacklist
    jissued,     \* the tokens GenerateToken has returned so far
    jreq,        \* per request goroutine: route, token presented, position
    jlog,        \* finished requests, in order of completion
    jclock,      \* time.Now() in seconds
    jcrashed,    \* the runtime has stopped the process (concurrent map access)
    \* ---- SafeCounter (part_008) ----
    cmu,         \* c.mu: 0 when free, else the goroutine holding it
    count,       \* c.count
    cpc,         \* per goroutine: where it is in Increment()
    ctmp,        \* per goroutine: the value count++ has loaded
    vst,         \* the goroutine calling Value(): position, value read
    cobs,        \* the Value() calls that returned, in order
    \* ---- workerPool (part_008) ----
    numWorkers,  \* argument of workerPool
    numJobs,     \* argument of workerPool
    jobs,        \* the jobs channel's buffer
    jobsClosed,  \* close(jobs) has been called
    results,     \* the results channel's buffer
    mpc,         \* where workerPool is
    mi,          \* its loop variable (w, j or a)
    wpc,         \* per poolWorker goroutine: where it is
    wj,          \* per poolWorker goroutine: the job it holds
    taken,       \* which worker received which job, in order
    collected    \* what workerPool has received from results, in order

chainVars  == <<handlers, index, stack, started, resp, werr, log>>
bucketVars == <<rate, maxTokens, tokens, lastUpdate, mu, clock, pc, nowv,
                elapsed, ret, hist, sTokens, sLast>>
pipeVars   == <<keys, got, escaped, calling, nreq>>
serverVars == <<rq, cobj, crashed, served>>
shutVars   == <<spc, isReady, sigs, inflight, left, sclock, deadline, shutErr, trace>>
jwtVars    == <<jbl, jw, jissued, jreq, jlog, jclock, jcrashed>>
cntVars    == <<cmu, count, cpc, ctmp, vst, cobs>>
poolVars   == <<numWorkers, numJobs, jobs, jobsClosed, results, mpc, mi, wpc, wj,
                taken, collected>>
extVars    == <<jwtVars, cntVars, poolVars>>
oldVars    == <<chainVars, bucketVars, pipeVars, serverVars, shutVars>>
vars == <<handlers, index, stack, started, resp, werr, log,
          rate, maxTokens, tokens, lastUpdate, mu, clock, pc, nowv,
          elapsed, ret, hist, sTokens, sLast,
          keys, got, escaped, calling, nreq,
          rq, cobj, crashed, served,
          spc, isReady, sigs, inflight, left, sclock, deadline, shutErr, trace,
          extVars>>

(***************************************************************************)
(* Bounds                                                                  *)
(***************************************************************************)
MaxStages == 3
TicksPerSec == 2     \* clock ticks per second; a token is TicksPerSec units
MaxRate == 2         \* rl.rate ranges over 0..MaxRate tokens per second
MaxCap == 5          \* rl.maxTokens ranges over 0..MaxCap units
MaxClock == 3        \* the clock stops advancing at MaxClock ticks
NProcs == 2          \* goroutines calling Allow()
MaxCalls == 4        \* Allow() calls per run
MaxReqs == 3                         \* requests served one after the other
MaxConns == 2                        \* requests sent to the server that shuts down
MaxSignals == 1                      \* SIGINT / SIGTERM sent to the process
MaxWork == 7                         \* longest handler, in ticks (beyond the timeout)
MaxJReqs == 2                        \* requests to the JWT routes per run
MaxJClock == 1                       \* seconds that pass while they are served
NGo == 3                              \* goroutines that call Increment() once each
MaxObs == 2                           \* Value() calls per run
MaxWorkers == 3                       \* numWorkers ranges over 1..MaxWorkers
MaxJobs == 3                          \* numJobs ranges over 0..MaxJobs

(***************************************************************************)
(* Handler chain                                                           *)
(***************************************************************************)
\* variant: an abort index that a chain can be longer than
abortIndex_Small == MaxStages - 1
abortIndex == 63

\* int8 arithmetic of c.index
Int8 (n) == ((n + 128) % 256) - 128

NoResp == [status |-> 0, by |-> 0]

\* The statements a stage is made of.
\*   Next   c.Next()
\*   Abort  c.Abort()
\*   AbortJ c.AbortWithStatusJSON(403, ...)
\*   JSON   c.JSON(200, ...)
\*   Log    log.Println(...)
StageBodies ==
    { <<>>,                          \* returns without c.Next() or c.Abort()
      <<"Log">>,                     \* the same, after logging
      <<"Next">>,                    \* middleware1: enter, c.Next(), return
      <<"Next", "Next">>,            \* calls c.Next() a second time
      <<"Abort", "Log">>,            \* c.Abort() and goes on
      <<"AbortJ", "Log">>,           \* abortMiddleware
      <<"AbortJ", "Next">>,          \* aborts, then still calls c.Next()
      <<"Next", "Abort">>,           \* aborts on the way out
      <<"JSON", "Next">>,            \* writes a response, then goes on
      <<"Next", "JSON">> }           \* writes a response on the way out

HandlerBody == <<"JSON">>            \* route handler: log, c.JSON(200, ...)

Len8 == Len(handlers)                \* int8(len(c.handlers))
NStages == Len(handlers) - 1
Top == stack[Len(stack)]
Pop == SubSeq(stack, 1, Len(stack) - 1)
Ev (e, h) == [e |-> e, h |-> h]

ChainInit ==
    /\ \E n \in 0..MaxStages :
         \E st \in [1..n -> StageBodies] :
            handlers = [i \in 1..(n + 1) |-> IF i <= n THEN st[i] ELSE HandlerBody]
    /\ index = -1
    /\ stack = <<>>
    /\ started = FALSE
    /\ resp = NoResp
    /\ werr = FALSE
    /\ log = <<>>

\* A frame of c.Next(): k = "next".  A frame of a handler: k = "h", with the
\* handler's position h (1-based in handlers) and the next statement ip.
NextFrame == [k |-> "next", h |-> 0, ip |-> 0]
HFrame (h) == [k |-> "h", h |-> h, ip |-> 1]

InStmt (op) ==
    /\ stack # <<>>
    /\ Top.k = "h"
    /\ Top.ip <= Len(handlers[Top.h])
    /\ handlers[Top.h][Top.ip] = op

StepIp == [stack EXCEPT ![Len(stack)].ip = @ + 1]

\* variant: c.Next() returns at once and leaves the rest to the caller's loop
NextCall_Deferred == StepIp

\* a stage calls c.Next(): the call is entered, the stage resumes after it
NextCall == StepIp \o <<NextFrame>>

\* the engine serves the request: c.Next()
ServeHTTP ==
    /\ ~started
    /\ started' = TRUE
    /\ index' = Int8(index + 1)
    /\ stack' = stack \o <<NextFrame>>
    /\ UNCHANGED <<handlers, resp, werr, log>>
    /\ UNCHANGED <<bucketVars, pipeVars, serverVars, shutVars, extVars>>

\* a stage executes c.Next(): c.index++ and enter the loop
CallNext ==
    /\ InStmt("Next")
    /\ index' = Int8(index + 1)
    /\ stack' = NextCall
    /\ log' = Append(log, Ev("next", Top.h))
    /\ UNCHANGED <<handlers, started, resp, werr>>
    /\ UNCHANGED <<bucketVars, pipeVars, serverVars, shutVars, extVars>>

\* variant: the loop condition reads c.index <= int8(len(c.handlers))
LoopInvoke_OffByOne ==
    /\ stack # <<>>
    /\ Top.k = "next"
    /\ index < Len8 + 1
    /\ stack' = stack \o <<HFrame(index + 1)>>
    /\ log' = Append(log, Ev("enter", index + 1))
    /\ UNCHANGED <<handlers, index, started, resp, werr>>
    /\ UNCHANGED <<bucketVars, pipeVars, serverVars, shutVars, extVars>>

\* for c.index < int8(len(c.handlers)) { c.handlers[c.index](c) ...
LoopInvoke ==
    /\ stack # <<>>
    /\ Top.k = "next"
    /\ index < Len8
    /\ stack' = stack \o <<HFrame(index + 1)>>
    /\ log' = Append(log, Ev("enter", index + 1))
    /\ UNCHANGED <<handlers, index, started, resp, werr>>
    /\ UNCHANGED <<bucketVars, pipeVars, serverVars, shutVars, extVars>>

\* the loop condition fails: c.Next() returns to its caller
LoopExit ==
    /\ stack # <<>>
    /\ Top.k = "next"
    /\ ~(index < Len8)
    /\ stack' = Pop
    /\ UNCHANGED <<handlers, index, started, resp, werr, log>>
    /\ UNCHANGED <<bucketVars, pipeVars, serverVars, shutVars, extVars>>

\* variant: c.Next() without the for loop returns after one handler
ReturnStack_NoLoop == SubSeq(stack, 1, Len(stack) - 2)

\* a handler returns into the loop of c.Next(): ... c.index++ }
ReturnStack == Pop
Return ==
    /\ stack # <<>>
    /\ Top.k = "h"
    /\ Top.ip > Len(handlers[Top.h])
    /\ stack' = ReturnStack
    /\ index' = Int8(index + 1)
    /\ log' = Append(log, Ev("exit", Top.h))
    /\ UNCHANGED <<handlers, started, resp, werr>>
    /\ UNCHANGED <<bucketVars, pipeVars, serverVars, shutVars, extVars>>

\* variant: c.Abort() also ends the calling handler
AbortStack_Return == [stack EXCEPT ![Len(stack)].ip = Len(handlers[Top.h]) + 1]

\* c.Abort(): c.index = abortIndex; the caller goes on with its next statement
AbortStack == StepIp
\* variant: c.Abort() leaves c.index alone
DoAbort_NoIndex ==
    /\ index' = index
    /\ stack' = AbortStack

DoAbort ==
    /\ index' = abortIndex
    /\ stack' = AbortStack

Abort ==
    /\ InStmt("Abort")
    /\ DoAbort
    /\ log' = Append(log, Ev("abort", Top.h))
    /\ UNCHANGED <<handlers, started, resp, werr>>
    /\ UNCHANGED <<bucketVars, pipeVars, serverVars, shutVars, extVars>>

\* writing a response: the first write sets it, a later one is reported as
\* an error ("Handler 再写会报错")
WriteResp (r, status, h) == IF r = NoResp THEN [status |-> status, by |-> h] ELSE r

\* variant: a later write is dropped silently
WriteErr_Silent (r, e) == e
WriteErr (r, e) == IF r = NoResp THEN e ELSE TRUE

\* c.AbortWithStatusJSON(403, ...): c.Abort() and the response
AbortWithStatusJSON ==
    /\ InStmt("AbortJ")
    /\ DoAbort
    /\ resp' = WriteResp(resp, 403, Top.h)
    /\ werr' = WriteErr(resp, werr)
    /\ log' = Append(log, Ev("abortj", Top.h))
    /\ UNCHANGED <<handlers, started>>
    /\ UNCHANGED <<bucketVars, pipeVars, serverVars, shutVars, extVars>>

\* c.JSON(200, ...)
JSON ==
    /\ InStmt("JSON")
    /\ stack' = StepIp
    /\ resp' = WriteResp(resp, 200, Top.h)
    /\ werr' = WriteErr(resp, werr)
    /\ log' = Append(log, Ev("write", Top.h))
    /\ UNCHANGED <<handlers, index, started>>
    /\ UNCHANGED <<bucketVars, pipeVars, serverVars, shutVars, extVars>>

\* log.Println(...)
Println ==
    /\ InStmt("Log")
    /\ stack' = StepIp
    /\ log' = Append(log, Ev("log", Top.h))
    /\ UNCHANGED <<handlers, index, started, resp, werr>>
    /\ UNCHANGED <<bucketVars, pipeVars, serverVars, shutVars, extVars>>

ChainNext ==
    \/ ServeHTTP
    \/ CallNext
    \/ LoopInvoke
    \/ LoopExit
    \/ Return
    \/ Abort
    \/ AbortWithStatusJSON
    \/ JSON
    \/ Println

(***************************************************************************)
(* Token bucket                                                            *)
(***************************************************************************)
Procs == 1..NProcs

\* NewRateLimiter(rate, maxTokens): a full bucket, lastUpdate = time.Now()
BucketInit ==
    /\ rate \in 0..MaxRate
    /\ maxTokens \in 0..MaxCap
    /\ tokens = maxTokens
    /\ clock = 0
    /\ lastUpdate = clock
    /\ mu = 0
    /\ pc = [p \in Procs |-> "idle"]
    /\ nowv = [p \in Procs |-> 0]
    /\ elapsed = [p \in Procs |-> 0]
    /\ ret = [p \in Procs |-> FALSE]
    /\ hist = <<>>
    /\ sTokens = maxTokens
    /\ sLast = clock

InFlight == {p \in Procs : pc[p] # "idle"}

\* time passes
Tick ==
    /\ clock < MaxClock
    /\ clock' = clock + 1
    /\ UNCHANGED <<rate, maxTokens, tokens, lastUpdate, mu, pc, nowv, elapsed,
                   ret, hist, sTokens, sLast>>
    /\ UNCHANGED <<chainVars, pipeVars, serverVars, shutVars, extVars>>

\* a goroutine calls rl.Allow()
Call (p) ==
    /\ pc[p] = "idle"
    /\ Len(hist) + Cardinality(InFlight) < MaxCalls
    /\ pc' = [pc EXCEPT ![p] = "lock"]
    /\ UNCHANGED <<rate, maxTokens, tokens, lastUpdate, mu, clock, nowv,
                   elapsed, ret, hist, sTokens, sLast>>
    /\ UNCHANGED <<chainVars, pipeVars, serverVars, shutVars, extVars>>

\* variant: Allow() without the mutex
LockFree_Always == TRUE

\* rl.mu.Lock() succeeds only while nobody holds the mutex
LockFree == mu = 0

\* rl.mu.Lock()
Lock (p) ==
    /\ pc[p] = "lock"
    /\ LockFree
    /\ mu' = p
    /\ pc' = [pc EXCEPT ![p] = "now"]
    /\ UNCHANGED <<rate, maxTokens, tokens, lastUpdate, clock, nowv, elapsed,
                   ret, hist, sTokens, sLast>>
    /\ UNCHANGED <<chainVars, pipeVars, serverVars, shutVars, extVars>>

\* now := time.Now()
ReadNow (p) ==
    /\ pc[p] = "now"
    /\ nowv' = [nowv EXCEPT ![p] = clock]
    /\ pc' = [pc EXCEPT ![p] = "elapsed"]
    /\ UNCHANGED <<rate, maxTokens, tokens, lastUpdate, mu, clock, elapsed,
                   ret, hist, sTokens, sLast>>
    /\ UNCHANGED <<chainVars, pipeVars, serverVars, shutVars, extVars>>

\* elapsed := now.Sub(rl.lastUpdate).Seconds()
Elapsed (p) ==
    /\ pc[p] = "elapsed"
    /\ elapsed' = [elapsed EXCEPT ![p] = nowv[p] - lastUpdate]
    /\ pc' = [pc EXCEPT ![p] = "refill"]
    /\ UNCHANGED <<rate, maxTokens, tokens, lastUpdate, mu, clock, nowv, ret,
                   hist, sTokens, sLast>>
    /\ UNCHANGED <<chainVars, pipeVars, serverVars, shutVars, extVars>>

\* variant: the refill forgets the rate
Refilled_NoRate (t, el) == t + el

\* rl.tokens + elapsed * rl.rate (el ticks at rate tokens per second are
\* el * rate units)
Refilled (t, el) == t + el * rate

\* rl.tokens += elapsed * rl.rate
Refill (p) ==
    /\ pc[p] = "refill"
    /\ tokens' = Refilled(tokens, elapsed[p])
    /\ pc' = [pc EXCEPT ![p] = "clamp"]
    /\ UNCHANGED <<rate, maxTokens, lastUpdate, mu, clock, nowv, elapsed, ret,
                   hist, sTokens, sLast>>
    /\ UNCHANGED <<chainVars, pipeVars, serverVars, shutVars, extVars>>

\* variant: the bucket is never clamped
Clamped_None (t) == t

\* if rl.tokens > rl.maxTokens { rl.tokens = rl.maxTokens }
Clamped (t) == IF t > maxTokens THEN maxTokens ELSE t

Clamp (p) ==
    /\ pc[p] = "clamp"
    /\ tokens' = Clamped(tokens)
    /\ pc' = [pc EXCEPT ![p] = "setlast"]
    /\ UNCHANGED <<rate, maxTokens, lastUpdate, mu, clock, nowv, elapsed, ret,
                   hist, sTokens, sLast>>
    /\ UNCHANGED <<chainVars, pipeVars, serverVars, shutVars, extVars>>

\* rl.lastUpdate = now
SetLast (p) ==
    /\ pc[p] = "setlast"
    /\ lastUpdate' = nowv[p]
    /\ pc' = [pc EXCEPT ![p] = "test"]
    /\ UNCHANGED <<rate, maxTokens, tokens, mu, clock, nowv, elapsed, ret,
                   hist, sTokens, sLast>>
    /\ UNCHANGED <<chainVars, pipeVars, serverVars, shutVars, extVars>>

\* variant: any positive amount of tokens admits
Admits_Any (t) == t > 0

\* rl.tokens >= 1
Admits (t) == t >= TicksPerSec

\* variant: a rejected call empties the bucket
Test_Drain (p) ==
    /\ pc[p] = "test"
    /\ IF Admits(tokens)
         THEN /\ pc' = [pc EXCEPT ![p] = "dec"]
              /\ ret' = ret
              /\ tokens' = tokens
         ELSE /\ pc' = [pc EXCEPT ![p] = "unlock"]
              /\ ret' = [ret EXCEPT ![p] = FALSE]
              /\ tokens' = 0
    /\ UNCHANGED <<rate, maxTokens, lastUpdate, mu, clock, nowv,
                   elapsed, hist, sTokens, sLast>>
    /\ UNCHANGED <<chainVars, pipeVars, serverVars, shutVars, extVars>>

\* if rl.tokens >= 1 { ... } return false
Test (p) ==
    /\ pc[p] = "test"
    /\ IF Admits(tokens)
         THEN /\ pc' = [pc EXCEPT ![p] = "dec"]
              /\ ret' = ret
         ELSE /\ pc' = [pc EXCEPT ![p] = "unlock"]
              /\ ret' = [ret EXCEPT ![p] = FALSE]
    /\ UNCHANGED <<rate, maxTokens, tokens, lastUpdate, mu, clock, nowv,
                   elapsed, hist, sTokens, sLast>>
    /\ UNCHANGED <<chainVars, pipeVars, serverVars, shutVars, extVars>>

\* rl.tokens--; return true
Take (p) ==
    /\ pc[p] = "dec"
    /\ tokens' = tokens - TicksPerSec
    /\ ret' = [ret EXCEPT ![p] = TRUE]
    /\ pc' = [pc EXCEPT ![p] = "unlock"]
    /\ UNCHANGED <<rate, maxTokens, lastUpdate, mu, clock, nowv, elapsed,
                   hist, sTokens, sLast>>
    /\ UNCHANGED <<chainVars, pipeVars, serverVars, shutVars, extVars>>

\* Allow() as one sequential function of (tokens, lastUpdate, now)
SeqRefilled (t, last, now) ==
    LET x == t + (now - last) * rate IN IF x > maxTokens THEN maxTokens ELSE x
SeqAdmit (t, last, now) == SeqRefilled(t, last, now) >= TicksPerSec
SeqTokens (t, last, now) ==
    IF SeqAdmit(t, last, now)
      THEN SeqRefilled(t, last, now) - TicksPerSec
      ELSE SeqRefilled(t, last, now)

\* the deferred rl.mu.Unlock() runs and Allow() returns.  The call is
\* recorded with its result, the bucket it leaves, and what the sequential
\* reference execution makes of the same call.
\* variant: the function returns without the deferred rl.mu.Unlock()
Unlock_Keep (p) ==
    /\ pc[p] = "unlock"
    /\ mu' = mu
    /\ pc' = [pc EXCEPT ![p] = "idle"]
    /\ hist' = Append(hist, [p |-> p, t |-> nowv[p], r |-> ret[p],
                             after |-> tokens,
                             sr |-> SeqAdmit(sTokens, sLast, nowv[p])])
    /\ sTokens' = SeqTokens(sTokens, sLast, nowv[p])
    /\ sLast' = nowv[p]
    /\ UNCHANGED <<rate, maxTokens, tokens, lastUpdate, clock, nowv, elapsed, ret>>
    /\ UNCHANGED <<chainVars, pipeVars, serverVars, shutVars, extVars>>

\* defer rl.mu.Unlock(): runs when Allow() returns, on either path
Unlock (p) ==
    /\ pc[p] = "unlock"
    /\ mu' = 0
    /\ pc' = [pc EXCEPT ![p] = "idle"]
    /\ hist' = Append(hist, [p |-> p, t |-> nowv[p], r |-> ret[p],
                             after |-> tokens,
                             sr |-> SeqAdmit(sTokens, sLast, nowv[p])])
    /\ sTokens' = SeqTokens(sTokens, sLast, nowv[p])
    /\ sLast' = nowv[p]
    /\ UNCHANGED <<rate, maxTokens, tokens, lastUpdate, clock, nowv, elapsed, ret>>
    /\ UNCHANGED <<chainVars, pipeVars, serverVars, shutVars, extVars>>

BucketNext ==
    \/ Tick
    \/ \E p \in Procs : Call(p)
    \/ \E p \in Procs : Lock(p)
    \/ \E p \in Procs : ReadNow(p)
    \/ \E p \in Procs : Elapsed(p)
    \/ \E p \in Procs : Refill(p)
    \/ \E p \in Procs : Clamp(p)
    \/ \E p \in Procs : SetLast(p)
    \/ \E p \in Procs : Test(p)
    \/ \E p \in Procs : Take(p)
    \/ \E p \in Procs : Unlock(p)

\* the state of the variables of the part of the program that is not running
ChainIdle ==
    /\ handlers = <<>>
    /\ index = -1
    /\ stack = <<>>
    /\ started = FALSE
    /\ resp = NoResp
    /\ werr = FALSE
    /\ log = <<>>

BucketIdle ==
    /\ rate = 0
    /\ maxTokens = 0
    /\ tokens = 0
    /\ lastUpdate = 0
    /\ mu = 0
    /\ clock = 0
    /\ pc = <<>>
    /\ nowv = <<>>
    /\ elapsed = <<>>
    /\ ret = <<>>
    /\ hist = <<>>
    /\ sTokens = 0
    /\ sLast = 0

PipeIdle ==
    /\ keys = <<>>
    /\ got = <<>>
    /\ escaped = FALSE
    /\ calling = FALSE
    /\ nreq = 0

ServerIdle ==
    /\ rq = <<>>
    /\ cobj = <<>>
    /\ crashed = FALSE
    /\ served = <<>>

ShutIdle ==
    /\ spc = "none"
    /\ isReady = TRUE
    /\ sigs = 0
    /\ inflight = <<>>
    /\ left = <<>>
    /\ sclock = 0
    /\ deadline = -1
    /\ shutErr = "none"
    /\ trace = <<>>

JwtIdle ==
    /\ jbl = {}
    /\ jw = {}
    /\ jissued = {}
    /\ jreq = <<>>
    /\ jlog = <<>>
    /\ jclock = 0
    /\ jcrashed = FALSE

CntIdle ==
    /\ cmu = 0
    /\ count = 0
    /\ cpc = <<>>
    /\ ctmp = <<>>
    /\ vst = <<>>
    /\ cobs = <<>>

PoolIdle ==
    /\ numWorkers = 0
    /\ numJobs = 0
    /\ jobs = <<>>
    /\ jobsClosed = FALSE
    /\ results = <<>>
    /\ mpc = "none"
    /\ mi = 0
    /\ wpc = <<>>
    /\ wj = <<>>
    /\ taken = <<>>
    /\ collected = <<>>

ExtIdle == JwtIdle /\ CntIdle /\ PoolIdle
OldIdle == ChainIdle /\ BucketIdle /\ PipeIdle /\ ServerIdle /\ ShutIdle

InitBucket == BucketInit /\ ChainIdle /\ PipeIdle /\ ServerIdle /\ ShutIdle /\ ExtIdle
SpecBucket == InitBucket /\ [][BucketNext]_vars

\* the steps of Allow() between taking the mutex and returning
Run (p) ==
    \/ ReadNow(p)
    \/ Elapsed(p)
    \/ Refill(p)
    \/ Clamp(p)
    \/ SetLast(p)
    \/ Test(p)
    \/ Take(p)
    \/ Unlock(p)

\* fair scheduling: a goroutine that can run does run, and a goroutine
\* waiting in rl.mu.Lock() gets the mutex if it is free again and again
\* (sync.Mutex hands over to a starving waiter)
Fairness == \A p \in Procs : WF_vars(Run(p)) /\ SF_vars(Lock(p))
FairSpecBucket == InitBucket /\ [][BucketNext]_vars /\ Fairness

InitChain == ChainInit /\ BucketIdle /\ PipeIdle /\ ServerIdle /\ ShutIdle /\ ExtIdle
SpecChain == InitChain /\ [][ChainNext]_vars

(***************************************************************************)
(* A rate-limited route: requests served one after the other through a     *)
(* chain that holds RateLimitMiddleware(limiter)                           *)
(***************************************************************************)
\*   Limit  if !limiter.Allow() { c.AbortWithStatusJSON(429, ...); return }
LimitedBodies ==
    { <<"Next", "Log">>,             \* AccessLogMiddleware: c.Next(), log.Printf
      <<"Limit", "Next">>,           \* RateLimitMiddleware
      <<"Next">> }                   \* TimingMiddleware

\* the goroutine serving the request
ReqProc == 1

FreshContext ==
    /\ index = -1
    /\ stack = <<>>
    /\ started = FALSE
    /\ resp = NoResp
    /\ werr = FALSE
    /\ log = <<>>

LimitedInit ==
    /\ \E n \in 0..MaxStages :
         \E st \in [1..n -> LimitedBodies] :
            handlers = [i \in 1..(n + 1) |-> IF i <= n THEN st[i] ELSE HandlerBody]
    /\ FreshContext
    /\ BucketInit
    /\ PipeIdle
    /\ ServerIdle
    /\ ShutIdle
    /\ ExtIdle

\* the engine serves the next request with a context in its initial state
NewRequest ==
    /\ started
    /\ stack = <<>>
    /\ nreq + 1 < MaxReqs
    /\ nreq' = nreq + 1
    /\ index' = -1
    /\ started' = FALSE
    /\ resp' = NoResp
    /\ werr' = FALSE
    /\ log' = <<>>
    /\ keys' = <<>>
    /\ got' = <<>>
    /\ escaped' = FALSE
    /\ UNCHANGED <<handlers, stack, calling>>
    /\ UNCHANGED <<bucketVars, serverVars, shutVars, extVars>>

\* the rate-limit stage calls limiter.Allow()
LimitCall ==
    /\ InStmt("Limit")
    /\ ~calling
    /\ pc[ReqProc] = "idle"
    /\ calling' = TRUE
    /\ pc' = [pc EXCEPT ![ReqProc] = "lock"]
    /\ UNCHANGED <<rate, maxTokens, tokens, lastUpdate, mu, clock, nowv,
                   elapsed, ret, hist, sTokens, sLast>>
    /\ UNCHANGED <<keys, got, escaped, nreq>>
    /\ UNCHANGED <<chainVars, serverVars, shutVars, extVars>>

\* limiter.Allow() returned true: the stage goes on to c.Next()
LimitAdmit ==
    /\ InStmt("Limit")
    /\ calling
    /\ pc[ReqProc] = "idle"
    /\ ret[ReqProc]
    /\ calling' = FALSE
    /\ stack' = StepIp
    /\ log' = Append(log, Ev("allow", Top.h))
    /\ UNCHANGED <<handlers, index, started, resp, werr>>
    /\ UNCHANGED <<keys, got, escaped, nreq>>
    /\ UNCHANGED <<bucketVars, serverVars, shutVars, extVars>>

\* variant: the rejection is written with c.JSON, without aborting
LimitReject_NoAbort ==
    /\ InStmt("Limit")
    /\ calling
    /\ pc[ReqProc] = "idle"
    /\ ~ret[ReqProc]
    /\ calling' = FALSE
    /\ index' = index
    /\ resp' = WriteResp(resp, 429, Top.h)
    /\ werr' = WriteErr(resp, werr)
    /\ stack' = [stack EXCEPT ![Len(stack)].ip = Len(handlers[Top.h]) + 1]
    /\ log' = Append(log, Ev("abortj", Top.h))
    /\ UNCHANGED <<handlers, started>>
    /\ UNCHANGED <<keys, got, escaped, nreq>>
    /\ UNCHANGED <<bucketVars, serverVars, shutVars, extVars>>

\* limiter.Allow() returned false: c.AbortWithStatusJSON(429, ...); return
LimitReject ==
    /\ InStmt("Limit")
    /\ calling
    /\ pc[ReqProc] = "idle"
    /\ ~ret[ReqProc]
    /\ calling' = FALSE
    /\ index' = abortIndex
    /\ resp' = WriteResp(resp, 429, Top.h)
    /\ werr' = WriteErr(resp, werr)
    /\ stack' = [stack EXCEPT ![Len(stack)].ip = Len(handlers[Top.h]) + 1]
    /\ log' = Append(log, Ev("abortj", Top.h))
    /\ UNCHANGED <<handlers, started>>
    /\ UNCHANGED <<keys, got, escaped, nreq>>
    /\ UNCHANGED <<bucketVars, serverVars, shutVars, extVars>>

LimitedNext ==
    \/ ServeHTTP
    \/ CallNext
    \/ LoopInvoke
    \/ LoopExit
    \/ Return
    \/ JSON
    \/ Println
    \/ LimitCall
    \/ LimitAdmit
    \/ LimitReject
    \/ NewRequest
    \/ Tick
    \/ Lock(ReqProc)
    \/ ReadNow(ReqProc)
    \/ Elapsed(ReqProc)
    \/ Refill(ReqProc)
    \/ Clamp(ReqProc)
    \/ SetLast(ReqProc)
    \/ Test(ReqProc)
    \/ Take(ReqProc)
    \/ Unlock(ReqProc)

SpecLimited == LimitedInit /\ [][LimitedNext]_vars

(***************************************************************************)
(* The pipeline with request data and panics: c.Set / c.Get, panic in a    *)
(* handler, and the Recovery middleware (defer recover(); c.Next())        *)
(***************************************************************************)
\*   Defer  defer func() { if err := recover(); err != nil { ... 500 } }()
\*   Panic  panic("something went wrong!"), arr[10], write to a nil map
\*   Set    c.Set("user_id", ...)
\*   Get    c.Get("user_id")
PipeBodies ==
    { <<"Next", "Log">>,             \* GinLogger: c.Next(), Logger.Info
      <<"Defer", "Next">>,           \* GinRecovery / gin.Recovery()
      <<"Set", "Next">>,             \* setDataMiddleware
      <<"Get", "Next">>,             \* adminMiddleware: c.Get, c.Next()
      <<"Next", "Next">>,            \* calls c.Next() a second time
      <<"Panic">> }                  \* a stage that panics

PipeHandlers ==
    { <<"JSON">>,                    \* c.JSON(200, ...)
      <<"Get", "JSON">>,             \* /data: c.Get, c.JSON
      <<"Panic">>,                   \* /panic/test
      <<"JSON", "Panic">> }          \* panics after it has written

NoKeys == [k \in {} |-> 0]
KeyName == "user_id"

PipeInit ==
    /\ \E n \in 0..MaxStages :
         \E st \in [1..n -> PipeBodies] :
            \E hb \in PipeHandlers :
               handlers = [i \in 1..(n + 1) |-> IF i <= n THEN st[i] ELSE hb]
    /\ FreshContext
    /\ keys = NoKeys
    /\ got = <<>>
    /\ escaped = FALSE
    /\ calling = FALSE
    /\ nreq = 0
    /\ BucketIdle
    /\ ServerIdle
    /\ ShutIdle
    /\ ExtIdle

\* variant: c.Set keeps the value a key already has
SetKey_KeepFirst (ks, k, v) ==
    [x \in (DOMAIN ks) \cup {k} |-> IF x \in DOMAIN ks THEN ks[x] ELSE v]

\* c.Keys[key] = value
SetKey (ks, k, v) ==
    [x \in (DOMAIN ks) \cup {k} |-> IF x = k THEN v ELSE ks[x]]

\* value, exists := c.Keys[key]
GetKey (ks, k) ==
    IF k \in DOMAIN ks THEN [v |-> ks[k], found |-> TRUE]
                       ELSE [v |-> 0, found |-> FALSE]

\* c.Set("user_id", ...): the stage stores its own number
Set ==
    /\ InStmt("Set")
    /\ keys' = SetKey(keys, KeyName, Top.h)
    /\ stack' = StepIp
    /\ log' = Append(log, Ev("set", Top.h))
    /\ UNCHANGED <<handlers, index, started, resp, werr>>
    /\ UNCHANGED <<got, escaped, calling, nreq>>
    /\ UNCHANGED <<bucketVars, serverVars, shutVars, extVars>>

\* userID, exists := c.Get("user_id")
Get ==
    /\ InStmt("Get")
    /\ got' = Append(got, [h |-> Top.h, at |-> Len(log) + 1,
                           v |-> GetKey(keys, KeyName).v,
                           found |-> GetKey(keys, KeyName).found])
    /\ stack' = StepIp
    /\ log' = Append(log, Ev("get", Top.h))
    /\ UNCHANGED <<handlers, index, started, resp, werr>>
    /\ UNCHANGED <<keys, escaped, calling, nreq>>
    /\ UNCHANGED <<bucketVars, serverVars, shutVars, extVars>>

\* defer func() { ... recover() ... }()
Defer ==
    /\ InStmt("Defer")
    /\ stack' = StepIp
    /\ log' = Append(log, Ev("defer", Top.h))
    /\ UNCHANGED <<handlers, index, started, resp, werr>>
    /\ UNCHANGED <<pipeVars, bucketVars, serverVars, shutVars, extVars>>

\* a panic in flight sits on top of the frames it has not unwound yet
PanicFrame == [k |-> "panic", h |-> 0, ip |-> 0]
Panicking == stack # <<>> /\ Top.k = "panic"
Below == stack[Len(stack) - 1]

\* the handler panics
Panic ==
    /\ InStmt("Panic")
    /\ stack' = stack \o <<PanicFrame>>
    /\ log' = Append(log, Ev("panic", Top.h))
    /\ UNCHANGED <<handlers, index, started, resp, werr>>
    /\ UNCHANGED <<pipeVars, bucketVars, serverVars, shutVars, extVars>>

\* variant: every handler function recovers
Recovers_Any (f) == f.k = "h"

\* variant: the deferred function does not call recover()
Recovers_Never (f) == FALSE

\* the frame has a deferred recover() in force
Recovers (f) ==
    /\ f.k = "h"
    /\ handlers[f.h] # <<>>
    /\ handlers[f.h][1] = "Defer"
    /\ f.ip > 1

\* the panic leaves a function that does not recover: the rest of the
\* function, and the c.index++ of a c.Next() loop, do not run
Unwind ==
    /\ Panicking
    /\ Len(stack) >= 2
    /\ ~Recovers(Below)
    /\ stack' = SubSeq(stack, 1, Len(stack) - 2) \o <<PanicFrame>>
    /\ UNCHANGED <<handlers, index, started, resp, werr, log>>
    /\ UNCHANGED <<pipeVars, bucketVars, serverVars, shutVars, extVars>>

\* the deferred function of the Recovery stage: recover() != nil,
\* c.AbortWithStatusJSON(500, ...); the stage then returns to its caller
Recover ==
    /\ Panicking
    /\ Len(stack) >= 2
    /\ Recovers(Below)
    /\ index' = abortIndex
    /\ resp' = WriteResp(resp, 500, Below.h)
    /\ werr' = WriteErr(resp, werr)
    /\ stack' = SubSeq(stack, 1, Len(stack) - 2)
                   \o <<[Below EXCEPT !.ip = Len(handlers[Below.h]) + 1]>>
    /\ log' = Append(log, Ev("recover", Below.h))
    /\ UNCHANGED <<handlers, started>>
    /\ UNCHANGED <<pipeVars, bucketVars, serverVars, shutVars, extVars>>

\* nothing recovered: the panic leaves the c.Next() the engine called
Escape ==
    /\ Panicking
    /\ Len(stack) = 1
    /\ stack' = <<>>
    /\ escaped' = TRUE
    /\ UNCHANGED <<handlers, index, started, resp, werr, log>>
    /\ UNCHANGED <<keys, got, calling, nreq>>
    /\ UNCHANGED <<bucketVars, serverVars, shutVars, extVars>>

PipeNext ==
    \/ ServeHTTP
    \/ CallNext
    \/ LoopInvoke
    \/ LoopExit
    \/ Return
    \/ JSON
    \/ Println
    \/ Set
    \/ Get
    \/ Defer
    \/ Panic
    \/ Unwind
    \/ Recover
    \/ Escape

SpecPipeline == PipeInit /\ [][PipeNext]_vars

(***************************************************************************)
(* Concurrent requests on one engine: route /limited/test behind           *)
(* gin.Recovery(), RequestIDMiddleware and RateLimitMiddleware; every      *)
(* request runs in its own goroutine on a context taken from the engine's  *)
(* pool ("context 可能被回收")                                              *)
(***************************************************************************)
\* variant: an engine made with gin.New() and no Recovery
ServerChain_NoRecovery == <<"RequestID", "RateLimit", "Handler">>

\* the stages of the route, in the order of r.Use
ServerChain == <<"Recovery", "RequestID", "RateLimit", "Handler">>

Ctxs == 1..NProcs                    \* at most one context per goroutine
NoRq == [st |-> "none", id |-> 0, ctx |-> 0, panicAt |-> "none",
         admitted |-> FALSE, seen |-> 0]
IdKey == "request_id"

\* variant: a recycled context keeps what the last request left in it
ResetContext_Keep (c, id) == [c EXCEPT !.owner = id, !.uses = c.uses + 1]

\* a context taken from the pool is reset before the request uses it
ResetContext (c, id) ==
    [keys |-> NoKeys, index |-> -1, resp |-> NoResp, owner |-> id,
     uses |-> c.uses + 1]

\* NewRateLimiter(rate, maxTokens) with a burst of two requests
ServerInit ==
    /\ BucketInit
    /\ rate = 1
    /\ maxTokens = 2 * TicksPerSec
    /\ rq = [p \in Procs |-> NoRq]
    /\ cobj = [i \in Ctxs |-> [keys |-> NoKeys, index |-> -1, resp |-> NoResp,
                               owner |-> 0, uses |-> 0]]
    /\ crashed = FALSE
    /\ served = <<>>
    /\ nreq = 0
    /\ keys = <<>>
    /\ got = <<>>
    /\ escaped = FALSE
    /\ calling = FALSE
    /\ ChainIdle
    /\ ShutIdle
    /\ ExtIdle

Stage (p) == rq[p].st
Ctx (p) == cobj[rq[p].ctx]
\* stage name of the chain position a request is at
PosOf (name) == CHOOSE i \in 1..Len(ServerChain) : ServerChain[i] = name
\* a Recovery stage registered before the stage that panics
CoveredAt (name) ==
    \E r \in 1..Len(ServerChain) :
        /\ ServerChain[r] = "Recovery"
        /\ r < PosOf(name)

\* the engine takes a context from the pool, new or recycled, and starts
\* the chain of the request in a goroutine of its own
Accept (p) ==
    /\ ~crashed
    /\ Stage(p) = "none"
    /\ nreq < MaxReqs
    /\ \E i \in Ctxs : \E pa \in {"none", "stage", "handler"} :
          /\ cobj[i].owner = 0
          /\ cobj' = [cobj EXCEPT ![i] = ResetContext(cobj[i], nreq + 1)]
          /\ rq' = [rq EXCEPT ![p] = [NoRq EXCEPT !.st = "set", !.id = nreq + 1,
                                                  !.ctx = i, !.panicAt = pa]]
    /\ nreq' = nreq + 1
    /\ UNCHANGED <<crashed, served>>
    /\ UNCHANGED <<keys, got, escaped, calling>>
    /\ UNCHANGED <<chainVars, bucketVars, shutVars, extVars>>

\* RequestIDMiddleware: c.Set("request_id", id); a stage may panic after it
SetID (p) ==
    /\ ~crashed
    /\ Stage(p) = "set"
    /\ cobj' = [cobj EXCEPT ![rq[p].ctx].keys = SetKey(@, IdKey, rq[p].id)]
    /\ rq' = [rq EXCEPT ![p].st =
                 IF rq[p].panicAt = "stage" THEN "panicStage" ELSE "limit"]
    /\ UNCHANGED <<crashed, served>>
    /\ UNCHANGED <<pipeVars, chainVars, bucketVars, shutVars, extVars>>

\* RateLimitMiddleware: limiter.Allow()
AllowCall (p) ==
    /\ ~crashed
    /\ Stage(p) = "limit"
    /\ pc[p] = "idle"
    /\ pc' = [pc EXCEPT ![p] = "lock"]
    /\ rq' = [rq EXCEPT ![p].st = "allow"]
    /\ UNCHANGED <<cobj, crashed, served>>
    /\ UNCHANGED <<rate, maxTokens, tokens, lastUpdate, mu, clock, nowv,
                   elapsed, ret, hist, sTokens, sLast>>
    /\ UNCHANGED <<pipeVars, chainVars, shutVars, extVars>>

\* RateLimitMiddleware: if !limiter.Allow() { c.AbortWithStatusJSON(429) ;
\* return } ; c.Next()
AllowRet (p) ==
    /\ ~crashed
    /\ Stage(p) = "allow"
    /\ pc[p] = "idle"
    /\ IF ret[p]
         THEN /\ rq' = [rq EXCEPT ![p].st = "handler", ![p].admitted = TRUE]
              /\ cobj' = cobj
         ELSE /\ rq' = [rq EXCEPT ![p].st = "finish"]
              /\ cobj' = [cobj EXCEPT
                            ![rq[p].ctx].index = abortIndex,
                            ![rq[p].ctx].resp = WriteResp(@, 429, rq[p].id)]
    /\ UNCHANGED <<crashed, served>>
    /\ UNCHANGED <<pipeVars, chainVars, bucketVars, shutVars, extVars>>

\* the route handler: it panics, or reads c.GetString("request_id") and
\* writes c.JSON(200, ...)
Handle (p) ==
    /\ ~crashed
    /\ Stage(p) = "handler"
    /\ IF rq[p].panicAt = "handler"
         THEN /\ rq' = [rq EXCEPT ![p].st = "panicHandler"]
              /\ cobj' = cobj
         ELSE /\ rq' = [rq EXCEPT ![p].st = "finish",
                                  ![p].seen = GetKey(Ctx(p).keys, IdKey).v]
              /\ cobj' = [cobj EXCEPT
                            ![rq[p].ctx].resp = WriteResp(@, 200, rq[p].id)]
    /\ UNCHANGED <<crashed, served>>
    /\ UNCHANGED <<pipeVars, chainVars, bucketVars, shutVars, extVars>>

PanicStageOf (p) == IF Stage(p) = "panicStage" THEN "RateLimit" ELSE "Handler"

\* the panic unwinds the goroutine: the deferred function of Recovery
\* answers 500; with no Recovery above it the process dies
PanicEnd (p) ==
    /\ ~crashed
    /\ Stage(p) \in {"panicStage", "panicHandler"}
    /\ IF CoveredAt(PanicStageOf(p))
         THEN /\ rq' = [rq EXCEPT ![p].st = "finish"]
              /\ cobj' = [cobj EXCEPT
                            ![rq[p].ctx].index = abortIndex,
                            ![rq[p].ctx].resp = WriteResp(@, 500, rq[p].id)]
              /\ crashed' = crashed
         ELSE /\ crashed' = TRUE
              /\ UNCHANGED <<rq, cobj>>
    /\ UNCHANGED served
    /\ UNCHANGED <<pipeVars, chainVars, bucketVars, shutVars, extVars>>

\* the chain has returned: the response goes out and the context goes back
\* to the pool
Finish (p) ==
    /\ ~crashed
    /\ Stage(p) = "finish"
    /\ served' = Append(served, [id |-> rq[p].id, ctx |-> rq[p].ctx,
                                 panicAt |-> rq[p].panicAt,
                                 admitted |-> rq[p].admitted,
                                 seen |-> rq[p].seen,
                                 resp |-> Ctx(p).resp,
                                 keys |-> Ctx(p).keys])
    /\ cobj' = [cobj EXCEPT ![rq[p].ctx].owner = 0]
    /\ rq' = [rq EXCEPT ![p] = NoRq]
    /\ UNCHANGED crashed
    /\ UNCHANGED <<pipeVars, chainVars, bucketVars, shutVars, extVars>>

\* the steps of a request outside Allow()
Serve (p) ==
    \/ SetID(p)
    \/ AllowCall(p)
    \/ AllowRet(p)
    \/ Handle(p)
    \/ PanicEnd(p)
    \/ Finish(p)

\* the requests arrive within one tick of the clock
ServerNext ==
    \/ \E p \in Procs : Accept(p)
    \/ \E p \in Procs : SetID(p)
    \/ \E p \in Procs : AllowCall(p)
    \/ \E p \in Procs : AllowRet(p)
    \/ \E p \in Procs : Handle(p)
    \/ \E p \in Procs : PanicEnd(p)
    \/ \E p \in Procs : Finish(p)
    \/ \E p \in Procs : Lock(p)
    \/ \E p \in Procs : ReadNow(p)
    \/ \E p \in Procs : Elapsed(p)
    \/ \E p \in Procs : Refill(p)
    \/ \E p \in Procs : Clamp(p)
    \/ \E p \in Procs : SetLast(p)
    \/ \E p \in Procs : Test(p)
    \/ \E p \in Procs : Take(p)
    \/ \E p \in Procs : Unlock(p)

SpecServer == ServerInit /\ [][ServerNext]_vars

\* fair scheduling of the request goroutines
ServerFairness ==
    \A p \in Procs : WF_vars(Serve(p)) /\ WF_vars(Run(p)) /\ SF_vars(Lock(p))
FairSpecServer == ServerInit /\ [][ServerNext]_vars /\ ServerFairness

(***************************************************************************)
(* Graceful shutdown: main waits for SIGINT / SIGTERM, marks the service   *)
(* not ready, calls srv.Shutdown under a 30 s timeout, closes the other    *)
(* resources and returns.  Time is counted in ticks of TickLen seconds;    *)
(* the statements of main take no time.                                    *)
(***************************************************************************)
ShutdownTimeout == 30                \* context.WithTimeout(..., 30*time.Second)
SlowSleep == 10                      \* /slow: time.Sleep(10 * time.Second)
TickLen == SlowSleep \div 2          \* seconds per tick
TimeoutTicks == ShutdownTimeout \div TickLen
Conns == 1..MaxConns
\* handler durations in ticks: /ping, /slow, and a handler that outlasts
\* the shutdown timeout
Works == {0, SlowSleep \div TickLen, MaxWork}

Tr (e, r, w) == [e |-> e, r |-> r, t |-> sclock, w |-> w]
TracePos (e) == {j \in 1..Len(trace) : trace[j].e = e}
Running == {r \in Conns : inflight[r] = "run"}

ShutInit ==
    /\ spc = "wait"
    /\ isReady = TRUE
    /\ sigs = 0
    /\ inflight = [r \in Conns |-> "new"]
    /\ left = [r \in Conns |-> 0]
    /\ sclock = 0
    /\ deadline = -1
    /\ shutErr = "none"
    /\ trace = <<>>
    /\ ChainIdle
    /\ BucketIdle
    /\ PipeIdle
    /\ ServerIdle
    /\ ExtIdle

\* variant: the listener stays open during and after Shutdown
Listening_Always == spc # "exited"

\* the server accepts connections until Shutdown closes its listeners
Listening == spc \in {"wait", "gotsig", "ctx", "call"}

\* a client sends a request: it is accepted and its handler starts, or the
\* connection is refused
Arrive (r) ==
    /\ inflight[r] = "new"
    /\ IF Listening
         THEN \E w \in Works :
                 /\ inflight' = [inflight EXCEPT ![r] = "run"]
                 /\ left' = [left EXCEPT ![r] = w]
                 /\ trace' = Append(trace, Tr("accept", r, w))
         ELSE /\ inflight' = [inflight EXCEPT ![r] = "refused"]
              /\ left' = left
              /\ trace' = Append(trace, Tr("refuse", r, 0))
    /\ UNCHANGED <<spc, isReady, sigs, sclock, deadline, shutErr>>
    /\ UNCHANGED <<chainVars, bucketVars, pipeVars, serverVars, extVars>>

\* the handler has finished: c.JSON(200, ...), the response is sent
Respond (r) ==
    /\ spc # "exited"
    /\ inflight[r] = "run"
    /\ left[r] = 0
    /\ inflight' = [inflight EXCEPT ![r] = "sent"]
    /\ trace' = Append(trace, Tr("respond", r, 0))
    /\ UNCHANGED <<spc, isReady, sigs, left, sclock, deadline, shutErr>>
    /\ UNCHANGED <<chainVars, bucketVars, pipeVars, serverVars, extVars>>

\* one tick passes: main is blocked (in <-quit or in srv.Shutdown), no
\* handler is about to answer, and the shutdown context has not expired
TimePasses ==
    /\ spc \in {"wait", "shutting"}
    /\ Running # {}
    /\ \A r \in Running : left[r] > 0
    /\ spc = "shutting" => sclock < deadline
    /\ sclock' = sclock + 1
    /\ left' = [r \in Conns |-> IF r \in Running THEN left[r] - 1 ELSE left[r]]
    /\ UNCHANGED <<spc, isReady, sigs, inflight, deadline, shutErr, trace>>
    /\ UNCHANGED <<chainVars, bucketVars, pipeVars, serverVars, extVars>>

\* SIGINT or SIGTERM is sent: signal.Notify puts it in quit if there is room
Signal ==
    /\ spc # "exited"
    /\ Cardinality(TracePos("signal")) < MaxSignals
    /\ sigs' = 1
    /\ trace' = Append(trace, Tr("signal", 0, 0))
    /\ UNCHANGED <<spc, isReady, inflight, left, sclock, deadline, shutErr>>
    /\ UNCHANGED <<chainVars, bucketVars, pipeVars, serverVars, extVars>>

\* sig := <-quit
Receive ==
    /\ spc = "wait"
    /\ sigs = 1
    /\ sigs' = 0
    /\ spc' = "gotsig"
    /\ trace' = Append(trace, Tr("received", 0, 0))
    /\ UNCHANGED <<isReady, inflight, left, sclock, deadline, shutErr>>
    /\ UNCHANGED <<chainVars, bucketVars, pipeVars, serverVars, extVars>>

\* isReady = false
SetNotReady ==
    /\ spc = "gotsig"
    /\ isReady' = FALSE
    /\ spc' = "ctx"
    /\ trace' = Append(trace, Tr("notready", 0, 0))
    /\ UNCHANGED <<sigs, inflight, left, sclock, deadline, shutErr>>
    /\ UNCHANGED <<chainVars, bucketVars, pipeVars, serverVars, extVars>>

\* ctx, cancel := context.WithTimeout(context.Background(), 30*time.Second)
WithTimeout ==
    /\ spc = "ctx"
    /\ deadline' = sclock + TimeoutTicks
    /\ spc' = "call"
    /\ trace' = Append(trace, Tr("ctx", 0, 0))
    /\ UNCHANGED <<isReady, sigs, inflight, left, sclock, shutErr>>
    /\ UNCHANGED <<chainVars, bucketVars, pipeVars, serverVars, extVars>>

\* srv.Shutdown(ctx) begins: the listeners are closed
ShutdownBegin ==
    /\ spc = "call"
    /\ spc' = "shutting"
    /\ trace' = Append(trace, Tr("shutdown", 0, 0))
    /\ UNCHANGED <<isReady, sigs, inflight, left, sclock, deadline, shutErr>>
    /\ UNCHANGED <<chainVars, bucketVars, pipeVars, serverVars, extVars>>

\* variant: Shutdown returns without waiting for the active requests
Drained_NoWait == TRUE

\* no connection is serving a request any more
Drained == Running = {}

\* srv.Shutdown(ctx) returns: nil once the active requests have finished,
\* ctx.Err() once the context has expired
ShutdownReturn ==
    /\ spc = "shutting"
    /\ \/ Drained /\ shutErr' = "nil"
       \/ sclock >= deadline /\ shutErr' = "deadline"
    /\ spc' = "closedb"
    /\ trace' = Append(trace, Tr("shutret", 0, 0))
    /\ UNCHANGED <<isReady, sigs, inflight, left, sclock, deadline>>
    /\ UNCHANGED <<chainVars, bucketVars, pipeVars, serverVars, extVars>>

\* log.Println("Closing database connections...")  // db.Close()
CloseDB ==
    /\ spc = "closedb"
    /\ spc' = "closeredis"
    /\ trace' = Append(trace, Tr("closedb", 0, 0))
    /\ UNCHANGED <<isReady, sigs, inflight, left, sclock, deadline, shutErr>>
    /\ UNCHANGED <<chainVars, bucketVars, pipeVars, serverVars, extVars>>

\* log.Println("Closing Redis connections...")  // redis.Close()
CloseRedis ==
    /\ spc = "closeredis"
    /\ spc' = "exit"
    /\ trace' = Append(trace, Tr("closeredis", 0, 0))
    /\ UNCHANGED <<isReady, sigs, inflight, left, sclock, deadline, shutErr>>
    /\ UNCHANGED <<chainVars, bucketVars, pipeVars, serverVars, extVars>>

\* main returns: the process exits and the handlers still running die
Exit ==
    /\ spc = "exit"
    /\ spc' = "exited"
    /\ inflight' = [r \in Conns |-> IF r \in Running THEN "killed" ELSE inflight[r]]
    /\ trace' = Append(trace, Tr("exit", 0, 0))
    /\ UNCHANGED <<isReady, sigs, left, sclock, deadline, shutErr>>
    /\ UNCHANGED <<chainVars, bucketVars, pipeVars, serverVars, extVars>>

\* the statements of main from the signal on
MainStep ==
    \/ Receive
    \/ SetNotReady
    \/ WithTimeout
    \/ ShutdownBegin
    \/ ShutdownReturn
    \/ CloseDB
    \/ CloseRedis
    \/ Exit

ShutNext ==
    \/ \E r \in Conns : Arrive(r)
    \/ \E r \in Conns : Respond(r)
    \/ TimePasses
    \/ Signal
    \/ Receive
    \/ SetNotReady
    \/ WithTimeout
    \/ ShutdownBegin
    \/ ShutdownReturn
    \/ CloseDB
    \/ CloseRedis
    \/ Exit

SpecShutdown == ShutInit /\ [][ShutNext]_vars

\* main and the handlers run when they can, and time passes
ShutFairness ==
    /\ WF_vars(MainStep)
    /\ WF_vars(TimePasses)
    /\ WF_vars(\E r \in Conns : Respond(r))
FairSpecShutdown == ShutInit /\ [][ShutNext]_vars /\ ShutFairness

(***************************************************************************)
(* Properties of the handler chain                                         *)
(***************************************************************************)
done == started /\ stack = <<>>

IsAbort (e) == e \in {"abort", "abortj"}
IsWrite (e) == e \in {"write", "abortj"}
IsStmt (e) == e \notin {"enter", "exit"}

Pos (e, h) == {j \in 1..Len(log) : log[j] = Ev(e, h)}
Count (e, h) == Cardinality(Pos(e, h))
Entered (h) == Pos("enter", h) # {}
Exited (h) == Pos("exit", h) # {}
\* the statements handler h has executed so far
StmtCount (h) == Cardinality({j \in 1..Len(log) : log[j].h = h /\ IsStmt(log[j].e)})
RanAll (h) == Exited(h) /\ StmtCount(h) = Len(handlers[h])
AbortPos == {j \in 1..Len(log) : IsAbort(log[j].e)}
WritePos == {j \in 1..Len(log) : IsWrite(log[j].e)}
Min (S) == CHOOSE x \in S : \A y \in S : x <= y
hcount == Count("enter", Len(handlers))

NextCalls (b) == Cardinality({j \in 1..Len(b) : b[j] = "Next"})
HasAbort (b) == \E j \in 1..Len(b) : b[j] \in {"Abort", "AbortJ"}
EnterExit == SelectSeq(log, LAMBDA x : ~IsStmt(x.e))

\* every stage calls c.Next() exactly once and never aborts
AllOnce == \A i \in 1..NStages : NextCalls(handlers[i]) = 1 /\ ~HasAbort(handlers[i])
Onion (n) ==
    [j \in 1..(2 * n) |-> IF j <= n THEN Ev("enter", j) ELSE Ev("exit", 2 * n + 1 - j)]

\* C1: in a chain whose stages each call c.Next() once and never abort, the
\* stages are entered in registration order 1..N, then the handler runs, then
\* the stages return in reverse order N..1.
C1_OnionOrder ==
    (done /\ AllOnce) => EnterExit = Onion(NStages + 1)

C1_Witness ==
    /\ done
    /\ AllOnce
    /\ NStages >= 3
    /\ EnterExit = Onion(NStages + 1)

\* the first abort of the request is made by stage k before k called c.Next()
FirstAbort == Min(AbortPos)
AbortedPre ==
    /\ AbortPos # {}
    /\ \A j \in 1..FirstAbort : log[j] # Ev("next", log[FirstAbort].h)

AbortBeforeHandler ==
    \E a \in AbortPos : \A j \in 1..a : log[j] # Ev("enter", Len(handlers))

\* C3: the handler runs at most once per request; when the request is over it
\* has run zero times if a stage aborted before it was reached and exactly once
\* otherwise.
C3_HandlerAtMostOnce ==
    /\ hcount <= 1
    /\ done => hcount = (IF AbortBeforeHandler THEN 0 ELSE 1)

C3_Witness ==
    /\ done
    /\ hcount = 1
    /\ \E i \in 1..NStages : Count("next", i) = 2
    /\ \E i \in 1..NStages : handlers[i] = <<>>
    /\ AbortPos # {}

\* C8: c.Abort() does not end the calling stage: right after the call the
\* stage is still running, at its next statement, and it runs every statement
\* up to its return.
C8_AbortDoesNotReturn ==
    \A a \in AbortPos :
        LET i == log[a].h IN
            /\ a = Len(log) =>
                   /\ stack # <<>>
                   /\ Top = [k |-> "h", h |-> i, ip |-> StmtCount(i) + 1]
            /\ Exited(i) => StmtCount(i) = Len(handlers[i])

C8_Witness ==
    /\ done
    /\ \E a \in AbortPos : \E j \in (a + 1)..Len(log) : log[j] = Ev("log", log[a].h)
    /\ \E h \in 1..NStages : Exited(h) /\ ~(\E a \in AbortPos : log[a].h = h)

\* a stage that neither calls c.Next() nor aborts
Silent (b) == NextCalls(b) = 0 /\ ~HasAbort(b)

\* C9 as stated: once a stage has returned without c.Next() and without
\* c.Abort(), no later stage and not the handler runs.
C9_SilentStageTruncates ==
    \A i \in 1..NStages :
        (Silent(handlers[i]) /\ Exited(i)) =>
            \A h \in (i + 1)..Len(handlers) : ~Entered(h)

\* C9 amended: a stage that returns without c.Next() and without c.Abort()
\* does not cut the chain: the loop of the enclosing c.Next() invokes the next
\* handler right after the stage has returned.
C9_SilentStageContinues ==
    \A i \in 1..NStages :
        Silent(handlers[i]) =>
            \A p \in Pos("exit", i) :
                /\ p < Len(log) => log[p + 1] = Ev("enter", i + 1)
                /\ done => Entered(i + 1)

C9_Witness ==
    /\ done
    /\ NStages >= 2
    /\ Silent(handlers[1])
    /\ Silent(handlers[2])
    /\ hcount = 1
    /\ AbortPos = {}

Before (i) == IF i = 1 THEN maxTokens ELSE hist[i - 1].after
LastBefore (i) == IF i = 1 THEN 0 ELSE hist[i - 1].t
\* tokens_before + R x T at call i, in units
Avail (i) == Before(i) + rate * (hist[i].t - LastBefore(i))
MinOf (a, b) == IF a <= b THEN a ELSE b

\* C4: whenever the mutex is free the bucket holds between 0 and maxTokens
\* tokens, however long it has been idle.
C4_TokensWithinCapacity ==
    mu = 0 => (0 <= tokens /\ tokens <= maxTokens)

C4_Witness ==
    /\ mu = 0
    /\ InFlight = {}
    /\ maxTokens > 0
    /\ \E i \in 2..Len(hist) : Avail(i) > maxTokens /\ hist[i].t > hist[i - 1].t
    /\ tokens <= maxTokens

\* every goroutine has called Allow() exactly once and has returned
EachOnce ==
    /\ InFlight = {}
    /\ Len(hist) = NProcs
    /\ \A p \in Procs : \E i \in 1..Len(hist) : hist[i].p = p
Admitted == {i \in 1..Len(hist) : hist[i].r}

\* C5 as stated: on a fresh bucket of capacity 1 the N calls yield exactly one
\* true, under every interleaving.
C5_ExactlyOneAdmitted ==
    (maxTokens = TicksPerSec /\ EachOnce) => Cardinality(Admitted) = 1

\* C5 amended: on a fresh bucket of capacity 1 the N calls yield exactly one
\* true provided less than one token is refilled between the construction and
\* the last call (rate x time < 1); in every case the first call is admitted
\* and a call is admitted only against a token of its own.
C5_OneAdmittedWithoutRefill ==
    (maxTokens = TicksPerSec /\ EachOnce) =>
        /\ hist[1].r
        /\ rate * hist[Len(hist)].t < TicksPerSec => Cardinality(Admitted) = 1
        /\ Cardinality(Admitted) * TicksPerSec
               <= maxTokens + rate * hist[Len(hist)].t

C5_Witness ==
    /\ maxTokens = TicksPerSec
    /\ EachOnce
    /\ rate > 0
    /\ hist[Len(hist)].t > 0
    /\ rate * hist[Len(hist)].t < TicksPerSec
    /\ Cardinality(Admitted) = 1

CS == {p \in Procs : pc[p] \notin {"idle", "lock"}}

\* C6: the body of Allow() runs in mutual exclusion, and the calls have the
\* results and leave the bucket of the sequential execution of the same calls
\* in the order they returned.
C6_AllowSerialized ==
    /\ Cardinality(CS) <= 1
    /\ \A p \in CS : mu = p
    /\ \A i \in 1..Len(hist) : hist[i].r = hist[i].sr
    /\ mu = 0 => (tokens = sTokens /\ lastUpdate = sLast)

C6_Witness ==
    /\ InFlight = {}
    /\ Len(hist) >= 3
    /\ \E i, j \in 1..Len(hist) : hist[i].p # hist[j].p /\ hist[i].r /\ ~hist[j].r
    /\ \E q \in Procs : \E i \in 1..Len(hist) : hist[i].p = q /\ hist[i].r

\* a burst: calls i..j of the history read the same time, i being the first
\* call at that time
Burst (i, j) ==
    /\ i <= j
    /\ \A m \in i..j : hist[m].t = hist[i].t
    /\ i > 1 => hist[i - 1].t < hist[i].t
\* a burst of only admitted calls followed by a rejected one
BurstEnded (i, j) ==
    /\ Burst(i, j + 1)
    /\ \A m \in i..j : hist[m].r
    /\ ~hist[j + 1].r
Floor (x) == x \div TicksPerSec

\* C7 as stated: the number of consecutive admitted calls of a burst is
\* min(C, floor(tokens_before + R x T)).
C7_BurstMinFloor ==
    \A i \in 1..Len(hist) : \A j \in (i - 1)..(Len(hist) - 1) :
        BurstEnded(i, j) =>
            (j - i + 1) * TicksPerSec = MinOf(maxTokens, Floor(Avail(i)) * TicksPerSec)

\* C7 amended: the number of consecutive admitted calls of a burst is
\* floor(min(C, tokens_before + R x T)), and the call after them is rejected.
C7_BurstFloorMin ==
    /\ \A i \in 1..Len(hist) : \A j \in (i - 1)..(Len(hist) - 1) :
          BurstEnded(i, j) => j - i + 1 = Floor(MinOf(maxTokens, Avail(i)))
    /\ \A i \in 1..Len(hist) : \A j \in i..Len(hist) :
          Burst(i, j) => (hist[j].r <=> j - i + 1 <= Floor(MinOf(maxTokens, Avail(i))))

C7_Witness ==
    /\ InFlight = {}
    /\ \E i \in 2..(Len(hist) - 2) :
          /\ BurstEnded(i, i + 1)
          /\ hist[i].t > hist[i - 1].t
          /\ Avail(i) > maxTokens
          /\ maxTokens % TicksPerSec # 0
\* calls i..j of the history were all rejected
RejectedRun (i, j) == \A m \in i..j : ~hist[m].r
\* tokens_before + R x T at call j, had the rejected calls i..j-1 not been made
AvailSince (i, j) == Before(i) + rate * (hist[j].t - LastBefore(i))

\* C25: a rejected Allow() leaves min(maxTokens, tokens_before + elapsed x
\* rate) tokens, less than one, and lastUpdate = now; over a run of rejected
\* calls the bucket holds what it would hold had they not been made, so the
\* call after them is admitted as soon as the fractions add up to a token.
C25_RejectConsumesNothing ==
    /\ [](\A i \in 1..Len(hist) : ~hist[i].r =>
             /\ hist[i].after = MinOf(maxTokens, Avail(i))
             /\ hist[i].after < TicksPerSec)
    /\ [](\A i \in 1..Len(hist) : \A j \in (i + 1)..Len(hist) :
             RejectedRun(i, j - 1) =>
                /\ hist[j].r <=> MinOf(maxTokens, AvailSince(i, j)) >= TicksPerSec
                /\ ~hist[j].r => hist[j].after = MinOf(maxTokens, AvailSince(i, j)))
    /\ [][\A p \in Procs : (pc[p] = "test" /\ pc'[p] = "unlock") =>
             (~ret'[p] /\ tokens' = tokens /\ lastUpdate' = nowv[p]
                /\ lastUpdate = nowv[p])]_vars
    /\ [][\A p \in Procs : (pc[p] = "unlock" /\ pc'[p] = "idle" /\ ~ret[p]) =>
             (tokens' = tokens /\ lastUpdate' = nowv[p])]_vars

\* two rejected calls leave half a token each time; the refills of less than
\* a token each add up and the next call is admitted
C25_Witness ==
    /\ InFlight = {}
    /\ \E i \in 2..(Len(hist) - 2) :
          /\ RejectedRun(i, i + 1)
          /\ hist[i + 2].r
          /\ hist[i].after > 0
          /\ hist[i].after % TicksPerSec # 0
          /\ rate * (hist[i + 2].t - hist[i + 1].t) < TicksPerSec
          /\ hist[i + 2].t > hist[i].t
          /\ hist[i].t > hist[i - 1].t

(***************************************************************************)
(* Properties of the rate-limited route                                    *)
(***************************************************************************)
\* the rejections of the current request
RejectPos == {j \in 1..Len(log) : log[j].e = "abortj" /\ handlers[log[j].h][1] = "Limit"}

\* the stage that was calling Allow() has aborted with 429 and returned
Rejected429 ==
    /\ index' = abortIndex
    /\ resp' = [status |-> 429, by |-> Top.h]
    /\ Len(stack') = Len(stack)
    /\ stack'[Len(stack)].h = Top.h
    /\ stack'[Len(stack)].ip > Len(handlers[Top.h])

\* C11: when Allow() returns false the rate-limit stage aborts with 429 and
\* returns; from then on no handler is entered (only the stages up to the
\* limiter have begun), the request ends with status 429, and the stages
\* before the limiter run the rest of their bodies, after the rejection.
C11_RejectAborts429 ==
    /\ [][(calling /\ ~calling' /\ ~ret[ReqProc]) => Rejected429]_vars
    /\ [](\A a \in RejectPos :
            LET k == log[a].h IN
                /\ \A j \in a..Len(log) : log[j].e # "enter"
                /\ \A h \in 1..Len(handlers) : Entered(h) <=> h <= k
                /\ resp = [status |-> 429, by |-> k]
                /\ done =>
                     \A h \in 1..(k - 1) :
                        /\ RanAll(h)
                        /\ handlers[h] = <<"Next", "Log">> =>
                               \E j \in a..Len(log) : log[j] = Ev("log", h))

C11_Witness ==
    /\ done
    /\ nreq >= 1
    /\ handlers[1] = <<"Next", "Log">>
    /\ handlers[2] = <<"Limit", "Next">>
    /\ NStages >= 3
    /\ RejectPos # {}
    /\ resp.status = 429
    /\ \E i \in 1..Len(hist) : hist[i].r
    /\ \E j \in 1..Len(log) : log[j] = Ev("log", 1)
(***************************************************************************)
(* Properties of the pipeline with request data and panics                 *)
(***************************************************************************)
PanicPos == {j \in 1..Len(log) : log[j].e = "panic"}
Max (S) == CHOOSE x \in S : \A y \in S : y <= x
\* a Recovery stage had deferred its recover() and had not returned when
\* event p was logged
Covered (p) ==
    \E r \in 1..NStages :
        /\ \E q \in 1..p : log[q] = Ev("defer", r)
        /\ \A q \in 1..p : log[q] # Ev("exit", r)
WrittenBefore (p) == \E q \in 1..p : IsWrite(log[q].e)

C15_GetReturnsLatestSet ==
    \A i \in 1..Len(got) :
        LET p == got[i].at
            S == {q \in 1..(p - 1) : log[q].e = "set"}
        IN  /\ log[p] = Ev("get", got[i].h)
            /\ IF S = {} THEN ~got[i].found
                         ELSE got[i].found /\ got[i].v = log[Max(S)].h
            /\ p < Len(log) => log[p + 1].e # "panic"
            /\ p = Len(log) => ~Panicking

C15_Witness ==
    /\ done
    /\ Len(got) >= 2
    /\ \E i \in 1..Len(got) : ~got[i].found
    /\ \E i \in 1..Len(got) : got[i].found /\ got[i].v = 3 /\ got[i].h = Len(handlers)
    /\ Cardinality({q \in 1..Len(log) : log[q].e = "set"}) >= 2
\* positions of the c.Next() calls made when every handler of the chain had
\* been entered: c.index is at the last handler or past it
PastEndPos ==
    {p \in 1..Len(log) :
        /\ log[p].e = "next"
        /\ \A h \in 1..Len(handlers) : \E q \in 1..(p - 1) : log[q] = Ev("enter", h)}
PastEndCall == InStmt("Next") /\ index + 1 >= Len8 /\ stack' = NextCall
PastEndLoop == stack # <<>> /\ Top.k = "next" /\ index >= Len8 /\ stack' # stack
SameContext ==
    /\ keys' = keys
    /\ resp' = resp
    /\ werr' = werr
    /\ escaped' = escaped
    /\ (index' >= abortIndex) <=> (index >= abortIndex)

RecoverPos == {j \in 1..Len(log) : log[j].e = "recover"}
\* the Recovery stages registered before handler h
RecoveryBefore (h) ==
    {r \in 1..(h - 1) : handlers[r] # <<>> /\ handlers[r][1] = "Defer"}
LogsAfter (s, p) == {j \in (p + 1)..Len(log) : log[j].h = s}

\* C26: a panic is recovered by the nearest Recovery stage registered before
\* the panic point; the stages between that stage and the panic point, and
\* the panicking one, run nothing more, while the Recovery stage returns and
\* every stage registered before it runs the rest of its code after
\* c.Next() and returns, the later registered first.
C26_PostCodeAroundRecovery ==
    \A q \in RecoverPos :
        LET r == log[q].h
            p == Max({j \in PanicPos : j < q})
            h == log[p].h
        IN  /\ RecoveryBefore(h) # {}
            /\ r = Max(RecoveryBefore(h))
            /\ \A s \in (r + 1)..h :
                  /\ ~Exited(s)
                  /\ LogsAfter(s, p) = {}
            /\ done =>
                  /\ \A s \in 1..r : Exited(s) /\ Min(Pos("exit", s)) > q
                  /\ \A s \in 1..(r - 1) :
                        /\ RanAll(s)
                        /\ Min(Pos("exit", s)) > Min(Pos("exit", s + 1))
                        /\ handlers[s] = <<"Next", "Log">> =>
                              \E j \in LogsAfter(s, q) : log[j] = Ev("log", s)

\* the logger before Recovery logs after the recovery; the logger between
\* Recovery and the panicking handler does not
C26_Witness ==
    /\ done
    /\ handlers = << <<"Next", "Log">>, <<"Defer", "Next">>, <<"Next", "Log">>,
                     <<"Panic">> >>
    /\ RecoverPos # {}
    /\ \E j \in 1..Len(log) : log[j] = Ev("log", 1) /\ j > Min(RecoverPos)
    /\ \A j \in 1..Len(log) : log[j] # Ev("log", 3)
    /\ Exited(1) /\ Exited(2) /\ ~Exited(3) /\ ~Exited(4)

(***************************************************************************)
(* The cursor c.index across c.Next() and c.Abort()                        *)
(***************************************************************************)
\* C16 as stated: no step of a request decreases c.index.
C16_CursorNeverDecreases == [][index' >= index]_vars

\* C16 amended: c.Next() and the return of a handler never decrease c.index;
\* c.Abort() sets it to abortIndex, which decreases it only when it was past
\* abortIndex already (an abort after an earlier abort), and the cursor then
\* stays at or past abortIndex and past the end of the chain.
C16_CursorMonotoneUpToAbort ==
    /\ [][index' < index => (index > abortIndex /\ index' = abortIndex
                              /\ Len(log') = Len(log) + 1
                              /\ IsAbort(log'[Len(log')].e))]_vars
    /\ [][index >= abortIndex => index' >= abortIndex]_vars
    /\ [][index' < index => index' >= Len8]_vars

\* a second abort made after the cursor had moved past abortIndex
C16_Witness ==
    /\ done
    /\ index = abortIndex + 1
    /\ \E a \in AbortPos : \E x \in (a + 1)..Len(log) : \E b \in AbortPos :
          /\ x < b
          /\ log[x].e = "exit"
          /\ log[b].h < log[a].h
          /\ Entered(log[b].h)
(***************************************************************************)
(* Termination of Allow()                                                  *)
(***************************************************************************)
\* the caller p finds less than one token
FindsNone (p) == pc[p] = "test" /\ ~Admits(tokens) /\ pc'[p] # pc[p]

\* C18: under fair scheduling every call of Allow() returns; the mutex is
\* released when a call returns, with true or with false; and a caller that
\* finds no token returns false in its next steps without waiting for one.
C18_AllowReturns ==
    /\ \A p \in Procs : (pc[p] # "idle") ~> (pc[p] = "idle")
    /\ [][\A p \in Procs : (pc[p] # "idle" /\ pc'[p] = "idle") =>
              (mu = p /\ mu' = 0 /\ hist'[Len(hist')].r = ret[p])]_vars
    /\ [](\A p \in Procs : pc[p] \in {"idle", "lock"} => mu # p)
    /\ [][\A p \in Procs : FindsNone(p) =>
              (pc'[p] = "unlock" /\ ~ret'[p] /\ tokens' = tokens /\ clock' = clock)]_vars

\* a caller waits for the mutex after one call was admitted and one rejected
C18_Witness ==
    /\ \E p \in Procs : pc[p] = "lock" /\ mu # 0 /\ mu # p
    /\ \E i \in 1..Len(hist) : hist[i].r
    /\ \E i \in 1..Len(hist) : ~hist[i].r
(***************************************************************************)
(* Properties of concurrent requests                                       *)
(***************************************************************************)
Busy == {p \in Procs : Stage(p) # "none"}
\* the response a finished request must carry, from its own course
OwnStatus (s) ==
    IF s.panicAt = "stage" \/ (s.panicAt = "handler" /\ s.admitted) THEN 500
    ELSE IF s.admitted THEN 200 ELSE 429
OwnResponse (s) ==
    /\ s.resp = [status |-> OwnStatus(s), by |-> s.id]
    /\ s.resp.status = 200 => s.seen = s.id
\* goroutine p takes the step in which its panic ends
PanicStep (p) == Stage(p) \in {"panicStage", "panicHandler"} /\ rq'[p] # rq[p]
Untouched (q) ==
    /\ rq'[q] = rq[q]
    /\ Stage(q) # "none" => cobj'[rq[q].ctx] = cobj[rq[q].ctx]
    /\ pc'[q] = pc[q]

OwnContext (p) ==
    /\ Ctx(p).owner = rq[p].id
    /\ \A k \in DOMAIN Ctx(p).keys : Ctx(p).keys[k] = rq[p].id
    /\ Ctx(p).resp.by \in {0, rq[p].id}
    /\ Ctx(p).resp = NoResp => Ctx(p).index < abortIndex
Isolated ==
    /\ \A p \in Busy : \A q \in Busy \ {p} : rq[p].ctx # rq[q].ctx
    /\ \A p \in Busy : OwnContext(p)
    /\ \A i \in 1..Len(served) :
          /\ served[i].resp.by = served[i].id
          /\ served[i].seen \in {0, served[i].id}
          /\ \A k \in DOMAIN served[i].keys : served[i].keys[k] = served[i].id
\* a step changes the context of the goroutine that takes it, and no other
OwnWrites ==
    \A i \in Ctxs : cobj'[i] # cobj[i] =>
        \E p \in Procs : /\ rq'[p] # rq[p]
                         /\ i \in {rq[p].ctx, rq'[p].ctx}
                         /\ \A q \in Procs \ {p} : rq'[q] = rq[q]

First (e) == Min(TracePos(e))
Happened (e) == TracePos(e) # {}
\* event a happened, and before event b if b happened
Precedes (a, b) == Happened(b) => (Happened(a) /\ First(a) < First(b))
ShutdownStarted == spc \in {"shutting", "closedb", "closeredis", "exit", "exited"}

AtSignal ==
    {j \in TracePos("accept") :
        /\ j < First("signal")
        /\ \A k \in TracePos("respond") :
              trace[k].r = trace[j].r => k > First("signal")}
\* the tick at which the handler of the request accepted at j finishes
FinishTick (j) == trace[j].t + trace[j].w

Users == {1, 2}
UserRole (u) == IF u = 1 THEN "admin" ELSE "user"
NoTok == [sub |-> "none", uid |-> 0, iat |-> 0]     \* no usable Authorization header
BadTok == [sub |-> "bad", uid |-> 0, iat |-> 0]     \* a string ParseToken rejects

\* GenerateToken: the access token and the refresh token of user u at time t
AccessOf (u, t) == [sub |-> "access_token", uid |-> u, iat |-> t]
RefreshOf (u, t) == [sub |-> "refresh_token", uid |-> u, iat |-> t]
GenerateToken (u, t) == {AccessOf(u, t), RefreshOf(u, t)}

\* ParseToken returns an error for anything but a signed, unexpired token
ParseOk (tok) == tok.sub \in {"access_token", "refresh_token"}
\* claims.Role: only access tokens carry the role
RoleOf (tok) == IF tok.sub = "access_token" THEN UserRole(tok.uid) ELSE ""

\* the subject JWTAuthMiddleware insists on, and the one /refresh insists on
IsAccess_AnySubject (tok) == TRUE
IsAccess (tok) == tok.sub = "access_token"
IsRefresh (tok) == tok.sub = "refresh_token"

\* the handler chains of the route groups
RouteChain (route) ==
    IF route = "admin" THEN <<"JWTAuthMiddleware", "RoleMiddleware", "handler">>
    ELSE <<"JWTAuthMiddleware", "handler">>
Protected == {"me", "logout", "admin"}

\* RoleMiddleware("admin"): is the stored role one of the allowed ones
Allowed_Any (role) == TRUE
Allowed (role) == role = "admin"

JwtNoReq == [pc |-> "idle", route |-> "none", tok |-> NoTok, at |-> 0,
             steps |-> <<>>, role |-> ""]

JwtInit ==
    /\ jbl = {}
    /\ jw = {}
    /\ jissued = {}
    /\ jreq = [p \in Procs |-> JwtNoReq]
    /\ jlog = <<>>
    /\ jclock = 0
    /\ jcrashed = FALSE
    /\ OldIdle
    /\ CntIdle
    /\ PoolIdle

JwtBusy == {p \in Procs : jreq[p].pc # "idle"}

\* the response is written and the goroutine is free again
JRespond (p, status, ran, steps) ==
    /\ jlog' = Append(jlog, [route |-> jreq[p].route, tok |-> jreq[p].tok,
                             status |-> status, ran |-> ran, at |-> jreq[p].at,
                             steps |-> steps, role |-> jreq[p].role])
    /\ jreq' = [jreq EXCEPT ![p] = JwtNoReq]

\* the stage a request in a middleware chain is at
JStage (p) == RouteChain(jreq[p].route)[Len(jreq[p].steps) + 1]
\* c.Next(): on to the following stage
JNext (p, role) ==
    jreq' = [jreq EXCEPT ![p].steps = Append(@, JStage(p)), ![p].role = role]

\* POST /login with a valid user name and password
Login (u) ==
    /\ ~jcrashed
    /\ u \in Users
    /\ jissued' = jissued \cup GenerateToken(u, jclock)
    /\ UNCHANGED <<jbl, jw, jreq, jlog, jclock, jcrashed>>
    /\ UNCHANGED <<oldVars, cntVars, poolVars>>

\* a request arrives: POST /refresh, or a route behind JWTAuthMiddleware
JStart (p, route, tok) ==
    /\ ~jcrashed
    /\ jreq[p].pc = "idle"
    /\ Len(jlog) + Cardinality(JwtBusy) < MaxJReqs
    /\ route \in Protected \cup {"refresh"}
    /\ tok \in jissued \cup {BadTok} \cup (IF route = "refresh" THEN {} ELSE {NoTok})
    /\ jreq' = [jreq EXCEPT ![p] =
                 [pc |-> IF route = "refresh" THEN "check" ELSE "chain",
                  route |-> route, tok |-> tok, at |-> Len(jlog),
                  steps |-> <<>>, role |-> ""]]
    /\ UNCHANGED <<jbl, jw, jissued, jlog, jclock, jcrashed>>
    /\ UNCHANGED <<oldVars, cntVars, poolVars>>

\* JWTAuthMiddleware: header, ParseToken, subject; then c.Set and c.Next()
JWTAuthMiddleware (p) ==
    /\ ~jcrashed
    /\ jreq[p].pc = "chain"
    /\ JStage(p) = "JWTAuthMiddleware"
    /\ LET tok == jreq[p].tok IN
       IF tok = NoTok \/ ~ParseOk(tok) \/ ~IsAccess(tok)
       THEN /\ JRespond(p, 401, FALSE, Append(jreq[p].steps, JStage(p)))
       ELSE /\ JNext(p, RoleOf(tok))
            /\ UNCHANGED jlog
    /\ UNCHANGED <<jbl, jw, jissued, jclock, jcrashed>>
    /\ UNCHANGED <<oldVars, cntVars, poolVars>>

\* RoleMiddleware("admin"): c.GetString("role") against the allowed roles
RoleMiddleware (p) ==
    /\ ~jcrashed
    /\ jreq[p].pc = "chain"
    /\ JStage(p) = "RoleMiddleware"
    /\ IF ~Allowed(jreq[p].role)
       THEN /\ JRespond(p, 403, FALSE, Append(jreq[p].steps, JStage(p)))
       ELSE /\ JNext(p, jreq[p].role)
            /\ UNCHANGED jlog
    /\ UNCHANGED <<jbl, jw, jissued, jclock, jcrashed>>
    /\ UNCHANGED <<oldVars, cntVars, poolVars>>

\* GET /api/me, GET /admin/users: the handler answers 200
JHandler (p) ==
    /\ ~jcrashed
    /\ jreq[p].pc = "chain"
    /\ JStage(p) = "handler"
    /\ jreq[p].route \in {"me", "admin"}
    /\ JRespond(p, 200, TRUE, Append(jreq[p].steps, "handler"))
    /\ UNCHANGED <<jbl, jw, jissued, jclock, jcrashed>>
    /\ UNCHANGED <<oldVars, cntVars, poolVars>>

\* POST /api/logout: tokenBlacklist[parts[1]] = true starts ...
LogoutWrite (p) ==
    /\ ~jcrashed
    /\ jreq[p].pc = "chain"
    /\ JStage(p) = "handler"
    /\ jreq[p].route = "logout"
    /\ jw' = jw \cup {p}
    /\ jreq' = [jreq EXCEPT ![p].pc = "written", ![p].steps = Append(@, "handler")]
    /\ UNCHANGED <<jbl, jissued, jlog, jclock, jcrashed>>
    /\ UNCHANGED <<oldVars, cntVars, poolVars>>

\* ... and is done; the handler answers 200
LogoutDone (p) ==
    /\ ~jcrashed
    /\ jreq[p].pc = "written"
    /\ jreq[p].route = "logout"
    /\ jbl' = jbl \cup {jreq[p].tok}
    /\ jw' = jw \ {p}
    /\ JRespond(p, 200, TRUE, jreq[p].steps)
    /\ UNCHANGED <<jissued, jclock, jcrashed>>
    /\ UNCHANGED <<oldVars, cntVars, poolVars>>

\* the tokens other goroutines are in the middle of storing
Writing (p) == {jreq[q].tok : q \in jw \ {p}}

\* POST /refresh: if tokenBlacklist[req.RefreshToken] -> 401 revoked.
\* The map has no lock: a read that overlaps a write sees the entry or not.
RefreshCheck (p) ==
    /\ ~jcrashed
    /\ jreq[p].pc = "check"
    /\ \E seen \in {jbl, jbl \cup Writing(p)} :
          IF jreq[p].tok \in seen
          THEN /\ JRespond(p, 401, FALSE, <<"check">>)
          ELSE /\ jreq' = [jreq EXCEPT ![p].pc = "parse"]
               /\ UNCHANGED jlog
    /\ UNCHANGED <<jbl, jw, jissued, jclock, jcrashed>>
    /\ UNCHANGED <<oldVars, cntVars, poolVars>>

\* POST /refresh: ParseToken, subject, user lookup, GenerateToken
RefreshParse (p) ==
    /\ ~jcrashed
    /\ jreq[p].pc = "parse"
    /\ LET tok == jreq[p].tok IN
       IF ~ParseOk(tok) \/ ~IsRefresh(tok) \/ tok.uid \notin Users
       THEN /\ JRespond(p, 401, FALSE, <<"check", "parse">>)
            /\ UNCHANGED jissued
       ELSE /\ jissued' = jissued \cup GenerateToken(tok.uid, jclock)
            /\ jreq' = [jreq EXCEPT ![p].pc = "generated"]
            /\ UNCHANGED jlog
    /\ UNCHANGED <<jbl, jw, jclock, jcrashed>>
    /\ UNCHANGED <<oldVars, cntVars, poolVars>>

\* POST /refresh: tokenBlacklist[req.RefreshToken] = true starts ...
RefreshWrite (p) ==
    /\ ~jcrashed
    /\ jreq[p].pc = "generated"
    /\ jw' = jw \cup {p}
    /\ jreq' = [jreq EXCEPT ![p].pc = "written"]
    /\ UNCHANGED <<jbl, jissued, jlog, jclock, jcrashed>>
    /\ UNCHANGED <<oldVars, cntVars, poolVars>>

\* ... and is done; the new pair is returned with 200
RefreshDone (p) ==
    /\ ~jcrashed
    /\ jreq[p].pc = "written"
    /\ jreq[p].route = "refresh"
    /\ jbl' = jbl \cup {jreq[p].tok}
    /\ jw' = jw \ {p}
    /\ JRespond(p, 200, TRUE, <<"check", "parse", "write">>)
    /\ UNCHANGED <<jissued, jclock, jcrashed>>
    /\ UNCHANGED <<oldVars, cntVars, poolVars>>

\* is goroutine p about to read or write tokenBlacklist
AtMap (p) ==
    \/ jreq[p].pc \in {"check", "generated"}
    \/ jreq[p].pc = "chain" /\ JStage(p) = "handler" /\ jreq[p].route = "logout"

\* an access to the map while another goroutine writes it: the runtime may
\* detect it and stop the process ("concurrent map writes"), or not
MapFault (p) ==
    /\ ~jcrashed
    /\ AtMap(p)
    /\ jw \ {p} # {}
    /\ jcrashed' = TRUE
    /\ UNCHANGED <<jbl, jw, jissued, jreq, jlog, jclock>>
    /\ UNCHANGED <<oldVars, cntVars, poolVars>>

\* a second passes
JTick ==
    /\ ~jcrashed
    /\ jclock < MaxJClock
    /\ jclock' = jclock + 1
    /\ UNCHANGED <<jbl, jw, jissued, jreq, jlog, jcrashed>>
    /\ UNCHANGED <<oldVars, cntVars, poolVars>>

JwtNext ==
    \/ \E u \in Users : Login(u)
    \/ \E p \in Procs, route \in Protected \cup {"refresh"},
          tok \in jissued \cup {NoTok, BadTok} : JStart(p, route, tok)
    \/ \E p \in Procs : JWTAuthMiddleware(p)
    \/ \E p \in Procs : RoleMiddleware(p)
    \/ \E p \in Procs : JHandler(p)
    \/ \E p \in Procs : LogoutWrite(p)
    \/ \E p \in Procs : LogoutDone(p)
    \/ \E p \in Procs : RefreshCheck(p)
    \/ \E p \in Procs : RefreshParse(p)
    \/ \E p \in Procs : RefreshWrite(p)
    \/ \E p \in Procs : RefreshDone(p)
    \/ \E p \in Procs : MapFault(p)
    \/ JTick

SpecJWT == JwtInit /\ [][JwtNext]_vars

\* ----------------------------------------------------------------------
\* Properties of the JWT routes
\* ----------------------------------------------------------------------
JDone == DOMAIN jlog
\* request j arrived after request i had been answered
JAfter (i, j) == jlog[j].at >= i
\* the successful /refresh calls that presented token t
Refreshed (t) ==
    {i \in JDone : jlog[i].route = "refresh" /\ jlog[i].tok = t /\ jlog[i].status = 200}

\* C21: a refresh token is single-use: of the /refresh calls presenting
\* the same token at most one succeeds, and a call that arrives after a
\* success is rejected with 401, also when calls are handled concurrently.
C21_RefreshSingleUse ==
    \A t \in jissued :
       /\ Cardinality(Refreshed(t)) <= 1
       /\ \A i \in Refreshed(t) : \A j \in JDone :
             (jlog[j].route = "refresh" /\ jlog[j].tok = t /\ JAfter(i, j))
                => jlog[j].status = 401

\* C22: the /admin handler runs only for a valid access token whose role
\* is "admin"; RoleMiddleware runs only after JWTAuthMiddleware has stored
\* the role; a request failing authentication is aborted with 401, one
\* with another role with 403, and in both cases the handler does not run.
C22_AdminOnly ==
    /\ \A i \in JDone : jlog[i].route = "admin" =>
          LET e == jlog[i]
              valid == ParseOk(e.tok) /\ e.tok.sub = "access_token"
          IN  /\ e.ran => valid /\ UserRole(e.tok.uid) = "admin" /\ e.status = 200
              /\ ~valid => /\ e.status = 401
                           /\ ~e.ran
                           /\ e.steps = <<"JWTAuthMiddleware">>
              /\ (valid /\ UserRole(e.tok.uid) # "admin") =>
                    /\ e.status = 403
                    /\ ~e.ran
                    /\ e.steps = <<"JWTAuthMiddleware", "RoleMiddleware">>
              /\ (\E k \in DOMAIN e.steps : e.steps[k] = "RoleMiddleware") =>
                    /\ e.steps[1] = "JWTAuthMiddleware"
                    /\ e.steps[2] = "RoleMiddleware"
                    /\ e.role = UserRole(e.tok.uid)
    /\ \A p \in JwtBusy :
          (jreq[p].pc = "chain" /\ JStage(p) = "RoleMiddleware") =>
             /\ jreq[p].steps = <<"JWTAuthMiddleware">>
             /\ jreq[p].role = UserRole(jreq[p].tok.uid)

\* an admin reached the handler and an ordinary user was turned away
C22_Witness ==
    /\ \E i \in JDone : /\ jlog[i].route = "admin"
                        /\ jlog[i].ran
                        /\ jlog[i].steps = <<"JWTAuthMiddleware", "RoleMiddleware", "handler">>
    /\ \E i \in JDone : /\ jlog[i].route = "admin"
                        /\ jlog[i].status = 403
                        /\ jlog[i].tok.sub = "access_token"

\* C23: token types are not interchangeable: JWTAuthMiddleware answers 401
\* to a token whose subject is not "access_token", and /refresh answers
\* 401 to a token whose subject is not "refresh_token".
C23_TokenTypes ==
    \A i \in JDone :
       LET e == jlog[i] IN
       /\ (e.route \in Protected /\ e.tok.sub # "access_token") =>
             e.status = 401 /\ ~e.ran
       /\ (e.route = "refresh" /\ e.tok.sub # "refresh_token") =>
             e.status = 401 /\ ~e.ran

\* a refresh token was shown to a protected route, an access token to /refresh
C23_Witness ==
    /\ \E i \in JDone : /\ jlog[i].route \in Protected
                        /\ jlog[i].tok.sub = "refresh_token"
                        /\ jlog[i].status = 401
    /\ \E i \in JDone : /\ jlog[i].route = "refresh"
                        /\ jlog[i].tok.sub = "access_token"
                        /\ ~(jlog[i].tok \in jbl)
                        /\ jlog[i].status = 401

\* C24: after /api/logout has succeeded with access token A, A is in the
\* blacklist and no later request carrying A is admitted to a route behind
\* JWTAuthMiddleware.
C24_LogoutRevokes ==
    \A i \in JDone : (jlog[i].route = "logout" /\ jlog[i].status = 200) =>
       /\ jlog[i].tok \in jbl
       /\ \A j \in JDone :
             (jlog[j].route \in Protected /\ jlog[j].tok = jlog[i].tok /\ JAfter(i, j))
                => jlog[j].status = 401 /\ ~jlog[j].ran

\* ======================================================================
\* SafeCounter (unnamed/part_008): a count behind a sync.Mutex
\* ======================================================================
Goroutines == 1..NGo
Observer == NGo + 1            \* the goroutine that calls Value()

CntInit ==
    /\ cmu = 0
    /\ count = 0
    /\ cpc = [g \in Goroutines |-> "new"]
    /\ ctmp = [g \in Goroutines |-> 0]
    /\ vst = [pc |-> "idle", lo |-> 0]
    /\ cobs = <<>>
    /\ OldIdle
    /\ JwtIdle
    /\ PoolIdle

\* Increment() calls that have started, and those that have returned
Started == Cardinality({g \in Goroutines : cpc[g] # "new"})
Completed == Cardinality({g \in Goroutines : cpc[g] = "done"})

\* c.mu.Lock() returns only when nobody holds the mutex
CLockFree_Always == TRUE
CLockFree == cmu = 0

\* go func() { counter.Increment() }: the call starts
CCall (g) ==
    /\ cpc[g] = "new"
    /\ cpc' = [cpc EXCEPT ![g] = "called"]
    /\ UNCHANGED <<cmu, count, ctmp, vst, cobs>>
    /\ UNCHANGED <<oldVars, jwtVars, poolVars>>

\* Increment: c.mu.Lock()
CLock (g) ==
    /\ cpc[g] = "called"
    /\ CLockFree
    /\ cmu' = g
    /\ cpc' = [cpc EXCEPT ![g] = "locked"]
    /\ UNCHANGED <<count, ctmp, vst, cobs>>
    /\ UNCHANGED <<oldVars, jwtVars, poolVars>>

\* Increment: c.count++ loads the count ...
CLoad (g) ==
    /\ cpc[g] = "locked"
    /\ ctmp' = [ctmp EXCEPT ![g] = count]
    /\ cpc' = [cpc EXCEPT ![g] = "loaded"]
    /\ UNCHANGED <<cmu, count, vst, cobs>>
    /\ UNCHANGED <<oldVars, jwtVars, poolVars>>

\* ... and stores it back, plus one
CStore (g) ==
    /\ cpc[g] = "loaded"
    /\ count' = ctmp[g] + 1
    /\ cpc' = [cpc EXCEPT ![g] = "stored"]
    /\ UNCHANGED <<cmu, ctmp, vst, cobs>>
    /\ UNCHANGED <<oldVars, jwtVars, poolVars>>

\* Increment: the deferred c.mu.Unlock(), and the return
CUnlock (g) ==
    /\ cpc[g] = "stored"
    /\ cmu' = 0
    /\ cpc' = [cpc EXCEPT ![g] = "done"]
    /\ UNCHANGED <<count, ctmp, vst, cobs>>
    /\ UNCHANGED <<oldVars, jwtVars, poolVars>>

\* Value() is called
VCall ==
    /\ vst.pc = "idle"
    /\ Len(cobs) < MaxObs
    /\ vst' = [pc |-> "called", lo |-> Completed]
    /\ UNCHANGED <<cmu, count, cpc, ctmp, cobs>>
    /\ UNCHANGED <<oldVars, jwtVars, poolVars>>

\* Value: c.mu.Lock()
VLock ==
    /\ vst.pc = "called"
    /\ CLockFree
    /\ cmu' = Observer
    /\ vst' = [vst EXCEPT !.pc = "locked"]
    /\ UNCHANGED <<count, cpc, ctmp, cobs>>
    /\ UNCHANGED <<oldVars, jwtVars, poolVars>>

\* Value: return c.count, the deferred c.mu.Unlock()
VReturn ==
    /\ vst.pc = "locked"
    /\ cobs' = Append(cobs, [v |-> count, lo |-> vst.lo, hi |-> Started])
    /\ cmu' = 0
    /\ vst' = [pc |-> "idle", lo |-> 0]
    /\ UNCHANGED <<count, cpc, ctmp>>
    /\ UNCHANGED <<oldVars, jwtVars, poolVars>>

CntNext ==
    \/ \E g \in Goroutines : CCall(g)
    \/ \E g \in Goroutines : CLock(g)
    \/ \E g \in Goroutines : CLoad(g)
    \/ \E g \in Goroutines : CStore(g)
    \/ \E g \in Goroutines : CUnlock(g)
    \/ VCall
    \/ VLock
    \/ VReturn

SpecCounter == CntInit /\ [][CntNext]_vars

\* C27: SafeCounter loses no update: once all the goroutines have called
\* Increment() once and returned, Value() is their number; and a Value()
\* call returns at least the number of Increment() calls that had returned
\* when it was called and at most the number that had started when it
\* returned.
C27_NoLostUpdate ==
    /\ \A i \in DOMAIN cobs :
          /\ cobs[i].lo <= cobs[i].v
          /\ cobs[i].v <= cobs[i].hi
          /\ cobs[i].lo = NGo => cobs[i].v = NGo
    /\ Completed <= count
    /\ count <= Started
    /\ Completed = NGo => count = NGo

\* Value() was called while increments were under way, and again after all
\* of them had returned
C27_Witness ==
    /\ \E i \in DOMAIN cobs : /\ cobs[i].lo < cobs[i].v
                              /\ cobs[i].v < cobs[i].hi
    /\ \E i \in DOMAIN cobs : cobs[i].lo = NGo /\ cobs[i].v = NGo

\* ======================================================================
\* workerPool (unnamed/part_008): a fixed set of workers on a job channel
\* ======================================================================
Workers == 1..numWorkers

PoolInit ==
    /\ numWorkers \in 1..MaxWorkers
    /\ numJobs \in 0..MaxJobs
    /\ jobs = <<>>
    /\ jobsClosed = FALSE
    /\ results = <<>>
    /\ mpc = "spawn"
    /\ mi = 1
    /\ wpc = [w \in 1..MaxWorkers |-> "none"]
    /\ wj = [w \in 1..MaxWorkers |-> 0]
    /\ taken = <<>>
    /\ collected = <<>>
    /\ OldIdle
    /\ JwtIdle
    /\ CntIdle

\* what a worker makes of job j
Process_Same (j) == j
Process (j) == j * 2

\* for w := 1; w <= numWorkers; w++ { go poolWorker(w, jobs, results) }
Spawn ==
    /\ mpc = "spawn"
    /\ mi <= numWorkers
    /\ wpc' = [wpc EXCEPT ![mi] = "range"]
    /\ IF mi = numWorkers
       THEN mpc' = "send" /\ mi' = 1
       ELSE mpc' = mpc /\ mi' = mi + 1
    /\ UNCHANGED <<numWorkers, numJobs, jobs, jobsClosed, results, wj, taken, collected>>
    /\ UNCHANGED <<oldVars, jwtVars, cntVars>>

\* jobs <- j: blocks while the buffer (of numJobs) is full
SendJob ==
    /\ mpc = "send"
    /\ mi <= numJobs
    /\ Len(jobs) < numJobs
    /\ jobs' = Append(jobs, mi)
    /\ mi' = mi + 1
    /\ UNCHANGED <<numWorkers, numJobs, jobsClosed, results, mpc, wpc, wj, taken, collected>>
    /\ UNCHANGED <<oldVars, jwtVars, cntVars>>

\* close(jobs), once the sending loop is over
CloseJobs_Forget ==
    /\ mpc = "send"
    /\ mi > numJobs
    /\ mpc' = "collect"
    /\ mi' = 1
    /\ UNCHANGED <<numWorkers, numJobs, jobs, jobsClosed, results, wpc, wj, taken, collected>>
    /\ UNCHANGED <<oldVars, jwtVars, cntVars>>
CloseJobs ==
    /\ mpc = "send"
    /\ mi > numJobs
    /\ jobsClosed' = TRUE
    /\ mpc' = "collect"
    /\ mi' = 1
    /\ UNCHANGED <<numWorkers, numJobs, jobs, results, wpc, wj, taken, collected>>
    /\ UNCHANGED <<oldVars, jwtVars, cntVars>>

\* <-results: blocks while the buffer is empty
Collect ==
    /\ mpc = "collect"
    /\ mi <= numJobs
    /\ results # <<>>
    /\ collected' = Append(collected, Head(results))
    /\ results' = Tail(results)
    /\ mi' = mi + 1
    /\ UNCHANGED <<numWorkers, numJobs, jobs, jobsClosed, mpc, wpc, wj, taken>>
    /\ UNCHANGED <<oldVars, jwtVars, cntVars>>

\* the collecting loop is over: workerPool returns
PoolReturn ==
    /\ mpc = "collect"
    /\ mi > numJobs
    /\ mpc' = "returned"
    /\ UNCHANGED <<numWorkers, numJobs, jobs, jobsClosed, results, mi, wpc, wj, taken,
                   collected>>
    /\ UNCHANGED <<oldVars, jwtVars, cntVars>>

\* for j := range jobs: a job is received
WorkerRecv (w) ==
    /\ wpc[w] = "range"
    /\ jobs # <<>>
    /\ wj' = [wj EXCEPT ![w] = Head(jobs)]
    /\ jobs' = Tail(jobs)
    /\ taken' = Append(taken, [w |-> w, j |-> Head(jobs)])
    /\ wpc' = [wpc EXCEPT ![w] = "send"]
    /\ UNCHANGED <<numWorkers, numJobs, jobsClosed, results, mpc, mi, collected>>
    /\ UNCHANGED <<oldVars, jwtVars, cntVars>>

\* results <- j * 2: blocks while the buffer (of numJobs) is full
WorkerSend (w) ==
    /\ wpc[w] = "send"
    /\ Len(results) < numJobs
    /\ results' = Append(results, Process(wj[w]))
    /\ wpc' = [wpc EXCEPT ![w] = "range"]
    /\ UNCHANGED <<numWorkers, numJobs, jobs, jobsClosed, mpc, mi, wj, taken, collected>>
    /\ UNCHANGED <<oldVars, jwtVars, cntVars>>

\* for j := range jobs: the channel is closed and empty, the loop ends
WorkerExit (w) ==
    /\ wpc[w] = "range"
    /\ jobs = <<>>
    /\ jobsClosed
    /\ wpc' = [wpc EXCEPT ![w] = "exited"]
    /\ UNCHANGED <<numWorkers, numJobs, jobs, jobsClosed, results, mpc, mi, wj, taken,
                   collected>>
    /\ UNCHANGED <<oldVars, jwtVars, cntVars>>

PoolMain == Spawn \/ SendJob \/ CloseJobs \/ Collect \/ PoolReturn
PoolWorker (w) == WorkerRecv(w) \/ WorkerSend(w) \/ WorkerExit(w)

PoolNext ==
    \/ Spawn
    \/ SendJob
    \/ CloseJobs
    \/ Collect
    \/ PoolReturn
    \/ \E w \in Workers : WorkerRecv(w)
    \/ \E w \in Workers : WorkerSend(w)
    \/ \E w \in Workers : WorkerExit(w)

SpecPool == PoolInit /\ [][PoolNext]_vars

\* the scheduler runs every goroutine that is able to take a step
PoolFairness ==
    /\ WF_vars(PoolMain)
    /\ \A w \in 1..MaxWorkers : WF_vars(PoolWorker(w))

FairSpecPool == PoolInit /\ [][PoolNext]_vars /\ PoolFairness

\* ----------------------------------------------------------------------
\* Properties of the worker pool
\* ----------------------------------------------------------------------
\* how often x occurs in the sequence s
Occurs (s, x) == Cardinality({i \in DOMAIN s : s[i] = x})
TakenBy (j) == {i \in DOMAIN taken : taken[i].j = j}

PoolSafe ==
    /\ \A j \in 1..MaxJobs : Cardinality(TakenBy(j)) <= 1
    /\ \A i \in DOMAIN taken : taken[i].j \in 1..numJobs
    /\ Len(collected) <= numJobs
    /\ \A w \in Workers : wpc[w] = "exited" => jobsClosed /\ jobs = <<>>
    /\ mpc = "returned" =>
          /\ Len(collected) = numJobs
          /\ \A j \in 1..numJobs : Occurs(collected, 2 * j) = 1
          /\ \A j \in 1..numJobs : Cardinality(TakenBy(j)) = 1
PoolFinished ==
    /\ mpc = "returned"
    /\ \A w \in Workers : wpc[w] = "exited"

====
